---------------------------- MODULE Spec2Model ----------------------------
(***************************************************************************)
(* A model of the Andaman trip planner's pricing engine.                   *)
(*                                                                         *)
(* The repository holds one helper module and three prototype variants of  *)
(* the planner component:                                                  *)
(*   src/src/cabPricing.js   point-to-point cab leg matching and fares     *)
(*   src/src/App.jsx         variant "A" (step wizard, ferry route ids)    *)
(*   src/unnamed/part_001    variant "B" (markups, median cab day rates)   *)
(*   src/unnamed/part_002    variant "C" (visited islands, tax on totals)  *)
(*                                                                         *)
(* JavaScript values are records [t, v]: t is the kind of the value and v  *)
(* its integer payload.  Text is a sequence of one-character strings, so   *)
(* that trimming and upper-casing are computed and not assumed.  Money     *)
(* amounts that the code computes with fractions (markups, medians, tax)   *)
(* are exact rationals [n, d]; binary floating-point rounding is not       *)
(* modelled.                                                               *)
(***************************************************************************)
EXTENDS Integers, Sequences, FiniteSets, TLC

VARIABLES
    cabLegs,          \* the cab_legs.json table (cabPricing.js import, cabLegs of variant A)
    cabReq,           \* the argument object of the last call into cabPricing.js
    cabOp,            \* which export was called last: "none", "find", "fare"
    cabOut,           \* what that call returned
    ferryRoutes,      \* the loaded ferry route table (ferryRoutes / data.ferries)
    selectedIslands,  \* island ids in the order they were selected
    adults,           \* the adults field of the traveller form
    children,         \* the children field of the traveller form
    cabs,             \* the loaded cab rate rows (data.cabs of B, cabRoutes of C)
    hotels,           \* the loaded hotel table (hotels / data.hotels / hotelPrices)
    adventures,       \* the loaded activity table (adventures / activities)
    pricingConfig,    \* the loaded pricing configuration
    scooterPlans,     \* variant C: scooter rental plans
    bicyclePlans,     \* variant C: bicycle rental plans
    hotelSelections,         \* variant B: hotel id -> nights
    selectedHotelsByIsland,  \* variant A: island id -> [hotelId, nights, rooms]
    selectedHotelId,         \* variant C: the one hotel of the trip, "" for null
    selectedAdventureIds,    \* the ids of the activities toggled on
    cabSelections,    \* variant B: rows [islandId, vehicleClass, days]
    useNightCabs,     \* variant B: night rates requested
    selectedCabLegs,  \* variant A: rows [legId, timeOfDay, count]
    selectedFerryRouteIds,   \* variant A: the ferry routes taken into the estimate
    includeCabs,      \* variant C: option switches
    includeScooters,
    includeBicycles,
    islandRows,       \* the loaded island table (islands): rows [id, name]
    locations,        \* the loaded location table
    searchText,       \* the search box of the location browser
    moodFilter,       \* the mood chip ("all"; selectedMood "any" of variant A)
    categoryFilter,   \* variants B, C: the category chip
    curatedFilter,    \* variant B: the curated bundle
    sortMode,         \* variant C: "recommended", "name" or "duration"
    callArg,          \* the argument of the last call of a shared helper
    callOut,          \* what each copy of the helper returned for it
    selectedLocationIds,    \* variants A, C: the ids of the selected locations
    renderedLocationIds,    \* variant C: selectedLocationIds as the last render saw it
    locationActivitiesMap,  \* variant C: the loaded location-to-activity table
    loadVariant,      \* the file whose load effect is followed: "A", "B" or "C"
    fetched,          \* per dataset: "pending", or how its fetch settled
    loadPc,           \* where loadAll stands: "await", a dataset being parsed, "done"
    installed,        \* the datasets whose table holds loaded rows
    loading,          \* the loading flag
    loadError,        \* the load error: "" when none
    unmounted         \* the component is gone (cancelled = true where there is a cleanup)

cabVars == <<cabLegs, cabReq, cabOp, cabOut>>

ferryVars == <<ferryRoutes, selectedIslands, adults, children>>

dataVars == <<cabs, hotels, adventures, pricingConfig, scooterPlans, bicyclePlans>>

hotelSelVars == <<hotelSelections, selectedHotelsByIsland, selectedHotelId>>

transportSelVars ==
    <<cabSelections, useNightCabs, selectedCabLegs, selectedFerryRouteIds>>

optionVars == <<includeCabs, includeScooters, includeBicycles>>

browseVars ==
    <<islandRows, locations, searchText, moodFilter, categoryFilter, curatedFilter, sortMode>>

helperVars == <<callArg, callOut>>

locSelVars == <<selectedLocationIds, renderedLocationIds, locationActivitiesMap>>

loadVars == <<loadVariant, fetched, loadPc, installed, loading, loadError, unmounted>>

otherThanFerry ==
    <<dataVars, hotelSelVars, selectedAdventureIds, transportSelVars, optionVars,
      browseVars, helperVars, locSelVars, loadVars>>

plannerVars ==
    <<ferryVars, dataVars, hotelSelVars, selectedAdventureIds, transportSelVars, optionVars,
      browseVars, helperVars, locSelVars, loadVars>>

vars == <<cabVars, plannerVars>>

-----------------------------------------------------------------------------
(* JavaScript values *)

Num(n)    == [t |-> "num", v |-> n]
NumStr(n) == [t |-> "numstr", v |-> n]    \* a numeric string such as "1200"
Str       == [t |-> "str", v |-> 0]       \* a non-numeric, non-empty string
Null      == [t |-> "null", v |-> 0]      \* null, or a missing field
NaN       == [t |-> "nan", v |-> 0]
Inf       == [t |-> "inf", v |-> 0]       \* +Infinity

\* ToBoolean: what `x || y` and `!x` test.
Truthy(x) ==
    CASE x.t = "num"    -> x.v # 0
      [] x.t = "numstr" -> TRUE
      [] x.t = "str"    -> TRUE
      [] x.t = "inf"    -> TRUE
      [] OTHER          -> FALSE

\* Number(x)
ToNumber(x) ==
    CASE x.t = "num"    -> x
      [] x.t = "numstr" -> Num(x.v)
      [] x.t = "null"   -> Num(0)
      [] x.t = "inf"    -> Inf
      [] OTHER          -> NaN

\* x > 0 under JavaScript's relational comparison (operands go through ToNumber).
GreaterThanZero(x) ==
    LET n == ToNumber(x) IN (n.t = "inf") \/ (n.t = "num" /\ n.v > 0)

\* x != null
NotNullish(x) == x.t # "null"

IsFiniteNumber(x) == x.t = "num"

-----------------------------------------------------------------------------
(* Exact rational arithmetic for amounts *)

RECURSIVE Gcd(_, _)
Gcd(a, b) == IF b = 0 THEN a ELSE Gcd(b, a % b)

Abs(x) == IF x < 0 THEN -x ELSE x

\* n/d in lowest terms with a positive denominator (d # 0).
Rat(n, d) ==
    LET g == Gcd(Abs(n), Abs(d))
        s == IF d < 0 THEN -1 ELSE 1
    IN  [n |-> (s * n) \div g, d |-> (s * d) \div g]

RInt(n)    == [n |-> n, d |-> 1]
RAdd(a, b) == Rat(a.n * b.d + b.n * a.d, a.d * b.d)
RMul(a, b) == Rat(a.n * b.n, a.d * b.d)
RDivInt(a, k) == Rat(a.n, a.d * k)
RLess(a, b) == a.n * b.d < b.n * a.d
RZero == RInt(0)

-----------------------------------------------------------------------------
(* Text *)

LowerCase == <<"a","b","c","d","e","f","g","h","i","j","k","l","m",
               "n","o","p","q","r","s","t","u","v","w","x","y","z">>
UpperCase == <<"A","B","C","D","E","F","G","H","I","J","K","L","M",
               "N","O","P","Q","R","S","T","U","V","W","X","Y","Z">>

\* The upper-case letter of each lower-case letter.
LowerToUpper ==
    [c \in {LowerCase[i] : i \in DOMAIN LowerCase} |->
        UpperCase[CHOOSE i \in DOMAIN LowerCase : LowerCase[i] = c]]

toUpperChar(c) == IF c \in DOMAIN LowerToUpper THEN LowerToUpper[c] ELSE c

toUpperCase(s) == [i \in DOMAIN s |-> toUpperChar(s[i])]

IsSpace(c) == c = " "

RECURSIVE trimStart(_)
trimStart(s) ==
    IF s # <<>> /\ IsSpace(Head(s)) THEN trimStart(Tail(s)) ELSE s

RECURSIVE trimEnd(_)
trimEnd(s) ==
    IF s # <<>> /\ IsSpace(s[Len(s)]) THEN trimEnd(SubSeq(s, 1, Len(s) - 1)) ELSE s

trim(s) == trimEnd(trimStart(s))

\* `a || b` on text: the empty string is falsy.  A missing (undefined or
\* null) field is falsy as well and is written as the empty sequence: every
\* expression of cabPricing.js that reads a text field sends both the same way.
OrText(a, b) == IF a = <<>> THEN b ELSE a

-----------------------------------------------------------------------------
(* src/src/cabPricing.js *)

\* norm: (v || "").toString().trim().toUpperCase()
norm(v) == toUpperCase(trim(OrText(v, <<>>)))

ONE_WAY == <<"O","N","E","_","W","A","Y">>
SEDAN   == <<"S","E","D","A","N">>
PRIVATE == <<"P","R","I","V","A","T","E">>

\* Array.prototype.find over the table, given the set of indices whose rows
\* satisfy the predicate: the least of them, 0 when there is none (find's
\* undefined, turned to null by `|| null`).
FirstLeg(matching) ==
    IF matching = {} THEN 0
    ELSE CHOOSE i \in matching : \A j \in matching : i <= j

\* Mutant: the row's islandId is compared as stored, without norm.
legKeysMatch_RawIsland(leg, island, from, to) ==
    /\ leg.islandId = island
    /\ norm(leg.fromZone) = from
    /\ norm(leg.toZone) = to

\* Mutant: the trip type is not compared.
legTripMatch_Ignored(leg, trip) == TRUE

\* Mutant: the vehicle class is not compared.
legVehMatch_Ignored(leg, veh) == TRUE

\* The comparisons of the four layers, on one row.
legKeysMatch(leg, island, from, to) ==
    /\ norm(leg.islandId) = island
    /\ norm(leg.fromZone) = from
    /\ norm(leg.toZone) = to
legTripMatch(leg, trip) == norm(OrText(leg.tripType, ONE_WAY)) = trip
legVehMatch(leg, veh)   == norm(OrText(leg.vehicleClass, SEDAN)) = veh
legSvcMatch(leg, svc)   == norm(OrText(leg.serviceClass, PRIVATE)) = svc

\* The guard of findCabLeg: if (!island || !from || !to) return null
cabGuardRejects(island, from, to) == island = <<>> \/ from = <<>> \/ to = <<>>

\* findCabLeg: the index in tbl of the row returned, 0 for null.
findCabLeg(tbl, p) ==
    LET island == norm(p.islandId)
        from   == norm(p.fromZone)
        to     == norm(p.toZone)
        trip   == norm(OrText(OrText(p.tripType, ONE_WAY), ONE_WAY))
        veh    == norm(OrText(OrText(p.vehicleClass, SEDAN), SEDAN))
        svc    == norm(OrText(OrText(p.serviceClass, PRIVATE), PRIVATE))
        L1(leg) == /\ legKeysMatch(leg, island, from, to)
                   /\ legTripMatch(leg, trip)
                   /\ legVehMatch(leg, veh)
                   /\ legSvcMatch(leg, svc)
        L2(leg) == /\ legKeysMatch(leg, island, from, to)
                   /\ legTripMatch(leg, trip)
                   /\ legVehMatch(leg, veh)
        L3(leg) == /\ legKeysMatch(leg, island, from, to)
                   /\ legVehMatch(leg, veh)
        L4(leg) == legKeysMatch(leg, island, from, to)
        found1 == FirstLeg({i \in DOMAIN tbl : L1(tbl[i])})
        found2 == FirstLeg({i \in DOMAIN tbl : L2(tbl[i])})
        found3 == FirstLeg({i \in DOMAIN tbl : L3(tbl[i])})
        found4 == FirstLeg({i \in DOMAIN tbl : L4(tbl[i])})
    IN  IF cabGuardRejects(island, from, to) THEN 0
        ELSE IF found1 # 0 THEN found1
        ELSE IF found2 # 0 THEN found2
        ELSE IF found3 # 0 THEN found3
        ELSE found4

\* const dayFare = Number(leg.dayFareINR || 0)
cabDayFare(leg) == ToNumber(IF Truthy(leg.dayFareINR) THEN leg.dayFareINR ELSE Num(0))

\* const nightFare = Number(leg.nightFareINR || dayFare)
cabNightFare(leg) ==
    ToNumber(IF Truthy(leg.nightFareINR) THEN leg.nightFareINR ELSE cabDayFare(leg))

\* const baseFare = isNight ? nightFare : dayFare
cabBaseFare(leg, isNight) == IF isNight THEN cabNightFare(leg) ELSE cabDayFare(leg)

\* typeof passengers === "number" && passengers > 0 ? passengers : 1
safePassengers(passengers) ==
    IF passengers.t = "num" /\ passengers.v > 0 THEN passengers.v ELSE 1

NoFare == [isNull |-> TRUE]

\* calculateCabFare: null, or { leg, fareINR, perPersonINR, label }.  leg is the
\* index of the row; perPersonINR is a rational when the fare is a finite number
\* and the fare's own kind (NaN, Infinity) otherwise.
calculateCabFare(tbl, p, isNight, passengers) ==
    LET i == findCabLeg(tbl, p) IN
    IF i = 0 THEN NoFare
    ELSE LET baseFare == cabBaseFare(tbl[i], isNight) IN
         [isNull       |-> FALSE,
          leg          |-> i,
          fareINR      |-> baseFare,
          perPersonINR |-> IF baseFare.t = "num"
                           THEN [t |-> "num",
                                 q |-> Rat(baseFare.v, safePassengers(passengers))]
                           ELSE [t |-> baseFare.t, q |-> RZero],
          label        |-> IF isNight THEN "Night cab" ELSE "Day cab"]

-----------------------------------------------------------------------------
(* Inputs of the cab leg resolver *)

MaxCabLegs == 2

CabFareVals == {Null, Num(0), Num(1000), Num(1500), Num(-200), NumStr(900), Str}
\* The isNight and passengers arguments that callers pass together.
CabFareOptions ==
    {[isNight |-> FALSE, passengers |-> Num(2)],
     [isNight |-> TRUE, passengers |-> Num(2)],
     [isNight |-> TRUE, passengers |-> Num(0)]}

CabLeg(i, f, t, trip, veh, svc, day, night) ==
    [islandId |-> i, fromZone |-> f, toZone |-> t, tripType |-> trip,
     vehicleClass |-> veh, serviceClass |-> svc,
     dayFareINR |-> day, nightFareINR |-> night]

\* Rows that differ in the six matching fields, all with a day and a night fare.
\* The raw field texts carry the letter case and padding found in hand-kept data.
CabMatchRows ==
    {CabLeg(i, <<"A">>, <<"b"," ">>, trip, veh, svc, Num(1000), Num(1500)) :
        i \in {<<>>, <<" ","p","b">>},
        trip \in {<<>>, <<"R","E","T","U","R","N">>},
        veh \in {<<"s","e","d","a","n">>, <<"S","U","V">>},
        svc \in {<<>>, <<"S","h","a","r","e","d">>}}

\* Rows that differ in the two fare fields only.
CabFareRows ==
    {CabLeg(<<"P","B">>, <<"A">>, <<"B">>, <<>>, <<>>, <<>>, day, night) :
        day \in CabFareVals, night \in CabFareVals}

TablesOf(rows, maxLen) ==
    UNION {[1..n -> rows] : n \in 0..maxLen}

CabRequests ==
    [islandId     : {<<>>, <<"P","B">>, <<"H","L">>},
     fromZone     : {<<"a">>},
     toZone       : {<<"B">>},
     tripType     : {<<>>, <<"r","e","t","u","r","n">>},
     vehicleClass : {<<>>, <<"s","u","v">>},
     serviceClass : {<<>>, <<"s","h","a","r","e","d">>, <<"V","I","P">>}]

NoRequest ==
    [islandId |-> <<>>, fromZone |-> <<>>, toZone |-> <<>>, tripType |-> <<>>,
     vehicleClass |-> <<>>, serviceClass |-> <<>>]

InitCabCalls ==
    /\ cabReq = NoRequest
    /\ cabOp = "none"
    /\ cabOut = NoFare

\* The planner component is not mounted: cabPricing.js is exercised on its own.
\* The default pricing configuration of variants A and C.
DefaultPricingA == [taxPercent |-> Num(0), serviceFee |-> Num(0)]
DefaultPricingC == [taxPercent |-> Num(5), serviceFee |-> Num(0)]

\* The selection state the components are constructed with.
InitialTravellers ==
    /\ adults = Num(2)
    /\ children = Num(0)

InitialIslands == selectedIslands = <<"PB", "HL", "NL">>

InitialHotelSelection ==
    /\ hotelSelections = <<>>
    /\ selectedHotelsByIsland = <<>>
    /\ selectedHotelId = ""

InitialAdventures == selectedAdventureIds = <<>>

InitialTransportSelection ==
    /\ cabSelections = << [islandId |-> "PB", vehicleClass |-> "sedan", days |-> Num(2)],
                          [islandId |-> "HL", vehicleClass |-> "sedan", days |-> Num(2)] >>
    /\ useNightCabs = FALSE
    /\ selectedCabLegs = <<>>
    /\ selectedFerryRouteIds = <<>>

InitialOptions ==
    /\ includeCabs = TRUE
    /\ includeScooters = FALSE
    /\ includeBicycles = FALSE

\* The location browser before islands.json and locations.json are loaded, with
\* the filters the components are constructed with.
InitialBrowse ==
    /\ islandRows = <<>>
    /\ locations = <<>>
    /\ searchText = <<>>
    /\ moodFilter = "all"
    /\ categoryFilter = "all"
    /\ curatedFilter = "must_see"
    /\ sortMode = "recommended"

\* useState([]) of selectedLocationIds and of locationActivitiesMap.
InitialLocationSelection ==
    /\ selectedLocationIds = <<>>
    /\ renderedLocationIds = <<>>
    /\ locationActivitiesMap = <<>>

\* The datasets followed through the load: required ones in the order in
\* which part_002 installs them, then the optional ones.
RequiredDatasets == <<"islands", "locations", "ferryRoutes">>

OptionalDatasets == <<"hotels", "pricing">>

Datasets == {RequiredDatasets[i] : i \in DOMAIN RequiredDatasets} \cup {OptionalDatasets[i] : i \in DOMAIN OptionalDatasets}

\* No load is under way: the effect has run to its end with every dataset
\* arrived.
LoadEnded ==
    /\ loadVariant = "A"
    /\ fetched = [d \in Datasets |-> "ok"]
    /\ loadPc = "done"
    /\ installed = Datasets
    /\ loading = FALSE
    /\ loadError = ""
    /\ unmounted = FALSE

\* No shared helper has been called.
NoHelperCall ==
    /\ callArg = Null
    /\ callOut = <<>>

\* The planner is constructed and no reference table has been loaded:
\* cabPricing.js is exercised on its own.
PlannerUnmounted ==
    /\ ferryRoutes = <<>>
    /\ cabs = <<>>
    /\ hotels = <<>>
    /\ adventures = <<>>
    /\ pricingConfig = DefaultPricingA
    /\ scooterPlans = <<>>
    /\ bicyclePlans = <<>>
    /\ InitialTravellers
    /\ InitialIslands
    /\ InitialHotelSelection
    /\ InitialAdventures
    /\ InitialTransportSelection
    /\ InitialOptions
    /\ InitialBrowse
    /\ NoHelperCall
    /\ InitialLocationSelection
    /\ LoadEnded

\* The module is loaded with a table whose rows differ in the matching fields.
InitCab ==
    /\ cabLegs \in TablesOf(CabMatchRows, MaxCabLegs)
    /\ InitCabCalls
    /\ PlannerUnmounted

\* The module is loaded with a one-row table whose fares vary.
InitCabFare ==
    /\ cabLegs \in {<<r>> : r \in CabFareRows}
    /\ InitCabCalls
    /\ PlannerUnmounted

\* A caller invokes findCabLeg(p).
CallFindCabLeg ==
    \E p \in CabRequests :
        /\ cabOp = "none"
        /\ cabReq' = p
        /\ cabOp' = "find"
        /\ cabOut' = LET found == findCabLeg(cabLegs, p)
                      IN  [isNull |-> found = 0, leg |-> found]
        /\ UNCHANGED <<cabLegs, plannerVars>>

\* A caller invokes calculateCabFare({...p, isNight, passengers}).
CallCalculateCabFare ==
    \E p \in CabRequests, o \in CabFareOptions :
        /\ cabOp = "none"
        /\ cabReq' = [islandId |-> p.islandId, fromZone |-> p.fromZone,
                      toZone |-> p.toZone, tripType |-> p.tripType,
                      vehicleClass |-> p.vehicleClass,
                      serviceClass |-> p.serviceClass,
                      isNight |-> o.isNight, passengers |-> o.passengers]
        /\ cabOp' = "fare"
        /\ cabOut' = calculateCabFare(cabLegs, p, o.isNight, o.passengers)
        /\ UNCHANGED <<cabLegs, plannerVars>>

\* The caller has used the returned value; the module keeps no state of its own.
CabReturn ==
    /\ cabOp # "none"
    /\ cabReq' = NoRequest
    /\ cabOp' = "none"
    /\ cabOut' = NoFare
    /\ UNCHANGED <<cabLegs, plannerVars>>

NextCab == CallFindCabLeg \/ CallCalculateCabFare \/ CabReturn

SpecCab == InitCab /\ [][NextCab]_vars

SpecCabFare == InitCabFare /\ [][NextCab]_vars

-----------------------------------------------------------------------------
(* Claims about the cab leg resolver (SpecCab, SpecCabFare) *)

\* What a claim means by "matches after normalisation", stated on the raw
\* fields of a row r and a request p.
AgreeOnKeys(r, p) ==
    /\ toUpperCase(trim(r.islandId)) = toUpperCase(trim(p.islandId))
    /\ toUpperCase(trim(r.fromZone)) = toUpperCase(trim(p.fromZone))
    /\ toUpperCase(trim(r.toZone)) = toUpperCase(trim(p.toZone))

WithDefault(v, d) == toUpperCase(trim(IF v = <<>> THEN d ELSE v))

AgreeOnFive(r, p) ==
    /\ AgreeOnKeys(r, p)
    /\ WithDefault(r.tripType, ONE_WAY) = WithDefault(p.tripType, ONE_WAY)
    /\ WithDefault(r.vehicleClass, SEDAN) = WithDefault(p.vehicleClass, SEDAN)

ServiceMatchesNoRow(tbl, p) ==
    \A i \in DOMAIN tbl :
        WithDefault(tbl[i].serviceClass, PRIVATE) # WithDefault(p.serviceClass, PRIVATE)

RequestKeysPresent(p) ==
    /\ trim(p.islandId) # <<>>
    /\ trim(p.fromZone) # <<>>
    /\ trim(p.toZone) # <<>>

SomeRowAgreesOnFive == \E i \in DOMAIN cabLegs : AgreeOnFive(cabLegs[i], cabReq)
SomeRowAgreesOnKeys == \E i \in DOMAIN cabLegs : AgreeOnKeys(cabLegs[i], cabReq)

\* C4 as stated: whenever findCabLeg was called with a serviceClass that no row
\* carries while some row agrees with the request on islandId, fromZone, toZone,
\* tripType and vehicleClass, it returned a row agreeing on those five, not null.
C4_AsStated ==
    (cabOp = "find" /\ ServiceMatchesNoRow(cabLegs, cabReq) /\ SomeRowAgreesOnFive)
        => (~cabOut.isNull /\ AgreeOnFive(cabLegs[cabOut.leg], cabReq))

\* C4 amended: the same, for requests whose islandId, fromZone and toZone are
\* all non-empty after trimming.
C4_LayerTwoResolves ==
    (/\ cabOp = "find"
     /\ RequestKeysPresent(cabReq)
     /\ ServiceMatchesNoRow(cabLegs, cabReq)
     /\ SomeRowAgreesOnFive)
        => (~cabOut.isNull /\ AgreeOnFive(cabLegs[cabOut.leg], cabReq))

\* C4 witness: findCabLeg returned the second row of a table for a request
\* whose serviceClass no row carries: the first row did not qualify.
C4_Witness ==
    /\ cabOp = "find"
    /\ RequestKeysPresent(cabReq)
    /\ ServiceMatchesNoRow(cabLegs, cabReq)
    /\ SomeRowAgreesOnFive
    /\ ~cabOut.isNull
    /\ cabOut.leg = 2
    /\ AgreeOnKeys(cabLegs[1], cabReq)

AgreeOnSix(r, p) ==
    /\ AgreeOnFive(r, p)
    /\ WithDefault(r.serviceClass, PRIVATE) = WithDefault(p.serviceClass, PRIVATE)

AgreeOnKeysAndVehicle(r, p) ==
    /\ AgreeOnKeys(r, p)
    /\ WithDefault(r.vehicleClass, SEDAN) = WithDefault(p.vehicleClass, SEDAN)

\* The rows of the strictest of the four layers that has any row, as indices
\* into tbl; empty when no row agrees with p on the three keys.
StrictestLayerRows(tbl, p) ==
    LET six   == {i \in DOMAIN tbl : AgreeOnSix(tbl[i], p)}
        five  == {i \in DOMAIN tbl : AgreeOnFive(tbl[i], p)}
        four  == {i \in DOMAIN tbl : AgreeOnKeysAndVehicle(tbl[i], p)}
        three == {i \in DOMAIN tbl : AgreeOnKeys(tbl[i], p)}
    IN  IF six # {} THEN six
        ELSE IF five # {} THEN five
        ELSE IF four # {} THEN four
        ELSE three

ReturnedFirstOfStrictestLayer ==
    LET rows == StrictestLayerRows(cabLegs, cabReq)
    IN  rows # {} =>
            /\ ~cabOut.isNull
            /\ cabOut.leg \in rows
            /\ \A j \in rows : cabOut.leg <= j

\* C16 as stated: whenever findCabLeg was called and some row matches the
\* request in one of the four layers, it returned the first row in table order
\* of the strictest layer that has a matching row.
C16_AsStated ==
    cabOp = "find" => ReturnedFirstOfStrictestLayer

\* C16 amended: the same, for requests whose islandId, fromZone and toZone are
\* all non-empty after trimming; with such a request and no row matching in any
\* layer the result is null.
C16_StrictestLayerFirst ==
    (cabOp = "find" /\ RequestKeysPresent(cabReq)) =>
        /\ ReturnedFirstOfStrictestLayer
        /\ (StrictestLayerRows(cabLegs, cabReq) = {} => cabOut.isNull)

\* C16 witness: findCabLeg returned the second row, which matches the request
\* in the third layer only (keys and vehicle class, not trip type), while the
\* first row matches it on the three keys alone.
C16_Witness ==
    /\ cabOp = "find"
    /\ RequestKeysPresent(cabReq)
    /\ cabOut.leg = 2
    /\ AgreeOnKeysAndVehicle(cabLegs[2], cabReq)
    /\ ~AgreeOnFive(cabLegs[2], cabReq)
    /\ AgreeOnKeys(cabLegs[1], cabReq)
    /\ ~AgreeOnKeysAndVehicle(cabLegs[1], cabReq)

CabTextFields ==
    {"islandId", "fromZone", "toZone", "tripType", "vehicleClass", "serviceClass"}

\* Texts that differ from t only in letter case or in leading and trailing
\* whitespace: t upper-cased, t padded on both sides, t trimmed.
TextVariants(t) == {toUpperCase(t), <<" ">> \o t \o <<" ">>, trim(t)}

\* The requests, and the tables, that differ from the given one in one field,
\* by such a variant.
RequestVariants(p) ==
    UNION {{[p EXCEPT ![f] = v] : v \in TextVariants(p[f])} : f \in CabTextFields}

TableVariants(tbl) ==
    UNION {{[tbl EXCEPT ![i][f] = v] : v \in TextVariants(tbl[i][f])} :
              i \in DOMAIN tbl, f \in CabTextFields}

\* A row or request with its missing tripType, vehicleClass and serviceClass
\* written out.
DefaultsWritten(r) ==
    [r EXCEPT !.tripType = IF @ = <<>> THEN ONE_WAY ELSE @,
              !.vehicleClass = IF @ = <<>> THEN SEDAN ELSE @,
              !.serviceClass = IF @ = <<>> THEN PRIVATE ELSE @]

\* C17: the row findCabLeg returned is the row it returns when one field of
\* the request, or one field of one table row, is replaced by a variant that
\* differs only in letter case or in leading and trailing whitespace, and the
\* row it returns when the missing tripType, vehicleClass and serviceClass of
\* the request and of the rows are written out as ONE_WAY, SEDAN and PRIVATE.
C17_VariantsChangeNothing ==
    cabOp = "find" =>
        /\ \A p \in RequestVariants(cabReq) : findCabLeg(cabLegs, p) = cabOut.leg
        /\ \A tbl \in TableVariants(cabLegs) : findCabLeg(tbl, cabReq) = cabOut.leg
        /\ findCabLeg(cabLegs, DefaultsWritten(cabReq)) = cabOut.leg
        /\ findCabLeg([i \in DOMAIN cabLegs |-> DefaultsWritten(cabLegs[i])], cabReq)
              = cabOut.leg

IsPositiveNumber(x) == x.t = "num" /\ x.v > 0

\* C6: for a resolved leg the fare is nightFareINR when night pricing is
\* requested and nightFareINR is positive, otherwise dayFareINR; when the fare
\* of the requested time of day is missing or not positive and the other one is
\* positive, the other one is the fare.
C6_FareSelection ==
    (cabOp = "fare" /\ ~cabOut.isNull) =>
        LET leg   == cabLegs[cabOut.leg]
            day   == leg.dayFareINR
            night == leg.nightFareINR
        IN  /\ (cabReq.isNight /\ IsPositiveNumber(night))
                => cabOut.fareINR = night
            /\ (cabReq.isNight /\ ~IsPositiveNumber(night) /\ IsPositiveNumber(day))
                => cabOut.fareINR = day
            /\ (~cabReq.isNight /\ IsPositiveNumber(day))
                => cabOut.fareINR = day
            /\ (~cabReq.isNight /\ ~IsPositiveNumber(day) /\ IsPositiveNumber(night))
                => cabOut.fareINR = night

-----------------------------------------------------------------------------
(* Helpers shared by the three planner variants *)

\* safeNum: typeof n === "number" && isFinite(n) ? n : 0
safeNum(n) == IF n.t = "num" THEN n.v ELSE 0

\* Array.prototype.find over the positions that satisfy the callback:
\* the first such position, 0 for undefined.
ArrayFind(matching) ==
    IF matching = {} THEN 0
    ELSE CHOOSE i \in matching : \A j \in matching : i <= j

\* Math.min(...values) of a non-empty collection, Math.max of two numbers
MathMin(values) == CHOOSE x \in values : \A y \in values : x <= y
MathMax(a, b) == IF a >= b THEN a ELSE b

RECURSIVE SumSeq(_)
SumSeq(s) == IF s = <<>> THEN 0 ELSE s[1] + SumSeq(Tail(s))

Includes(s, x) == \E i \in DOMAIN s : s[i] = x

\* for (i = 0; i < seq.length - 1; i++) [seq[i], seq[i + 1]]
ConsecutivePairs(seq) == [i \in 1..(Len(seq) - 1) |-> <<seq[i], seq[i + 1]>>]

\* Math.max(1, safeNum(adults) + safeNum(children))
travellerCount(a, c) == MathMax(1, safeNum(a) + safeNum(c))
travelersCount(a, c) == MathMax(1, safeNum(a) + safeNum(c))

-----------------------------------------------------------------------------
(* Ferry route resolver *)

\* Mutant: a route stored in the reversed direction is not looked for.
findFerryRoute_DirectOnly(routes, from, to) ==
    ArrayFind({i \in DOMAIN routes :
                  routes[i].originId = from /\ routes[i].destinationId = to})

\* routes.find(origin = from, destination = to) || routes.find(reversed),
\* the same expression in all three variants; 0 when neither finds a route.
findFerryRoute(routes, from, to) ==
    LET direct == ArrayFind({i \in DOMAIN routes :
                      routes[i].originId = from /\ routes[i].destinationId = to})
        reversed == ArrayFind({i \in DOMAIN routes :
                      routes[i].originId = to /\ routes[i].destinationId = from})
    IN  IF direct # 0 THEN direct ELSE reversed

(* Variant B: estimateFerryCost *)

\* hasPB ? ["PB", ...islands.filter(id => id !== "PB")] : islands
ferryOrdered(islands) ==
    IF Includes(islands, "PB")
    THEN <<"PB">> \o SelectSeq(islands, LAMBDA id : id # "PB")
    ELSE islands

\* The consecutive legs of the ordered list, and the closing leg to PB.
ferryLegs(islands) ==
    LET ordered == ferryOrdered(islands)
        legs    == ConsecutivePairs(ordered)
    IN  IF Includes(islands, "PB") /\ ordered[Len(ordered)] # "PB"
        THEN Append(legs, <<ordered[Len(ordered)], "PB">>)
        ELSE legs

\* (route.operators || []).map(op => safeNum(op.sampleFareINR)).filter(v => v > 0),
\* then Math.min; 0 stands for the leg being skipped.
minOperatorFare(route) ==
    LET mapped == [i \in DOMAIN route.operators |-> safeNum(route.operators[i].sampleFareINR)]
        fares  == SelectSeq(mapped, LAMBDA v : v > 0)
    IN  IF fares = <<>> THEN 0 ELSE MathMin({fares[i] : i \in DOMAIN fares})

estimateFerryCost(selectedIslandIds, ferries, pax) ==
    IF Len(selectedIslandIds) <= 1 THEN 0
    ELSE LET legs == ferryLegs(selectedIslandIds)
             amount(leg) ==
                 LET route == findFerryRoute(ferries, leg[1], leg[2])
                 IN  IF route = 0 THEN 0
                     ELSE minOperatorFare(ferries[route]) * safeNum(pax)
         IN  SumSeq([i \in DOMAIN legs |-> amount(legs[i])])

(* Variant A: suggested ferry routes and ferryTotal *)

computeRouteIds(islandOrder, routes) ==
    LET pairs == ConsecutivePairs(islandOrder)
        found == [i \in DOMAIN pairs |-> findFerryRoute(routes, pairs[i][1], pairs[i][2])]
        kept  == SelectSeq(found, LAMBDA r : r # 0)
    IN  [k \in DOMAIN kept |-> routes[kept[k]].id]

\* The island order that suggestedFerryRouteIds hands to computeRouteIds.
suggestedIslandOrder(order) ==
    IF Includes(order, "PB") /\ order[1] # "PB"
    THEN <<"PB">> \o SelectSeq(order, LAMBDA id : id # "PB")
    ELSE order

suggestedFerryRouteIds(routes, selected) ==
    IF routes = <<>> \/ selected = <<>> THEN <<>>
    ELSE computeRouteIds(suggestedIslandOrder(selected), routes)

getFerryMinFarePerPerson(route) ==
    LET avail == SelectSeq(route.operators,
                     LAMBDA op : NotNullish(op.sampleFareINR)
                                 /\ GreaterThanZero(op.sampleFareINR))
    IN  IF avail = <<>> THEN 0
        ELSE MathMin({safeNum(avail[i].sampleFareINR) : i \in DOMAIN avail})

ferryTotalA(routeIds, routes, travellers) ==
    LET amount(id) ==
            LET r == ArrayFind({i \in DOMAIN routes : routes[i].id = id})
            IN  IF r = 0 THEN 0
                ELSE getFerryMinFarePerPerson(routes[r]) * travellers
    IN  SumSeq([k \in DOMAIN routeIds |-> amount(routeIds[k])])

(* Variant C: visited islands, buildIslandSequence and ferryTotal *)

ISLAND_ORDER == <<"PB", "HL", "NL", "LI", "NA", "LA", "BT", "MB", "RG", "DG", "RX">>

\* ISLAND_ORDER.indexOf(id): zero-based, -1 when absent
islandOrderIndex(id) ==
    IF Includes(ISLAND_ORDER, id)
    THEN ArrayFind({i \in DOMAIN ISLAND_ORDER : ISLAND_ORDER[i] = id}) - 1
    ELSE -1

\* Array.from(new Set(list)): first occurrences, in order
DistinctInOrder(list) ==
    LET firstAt == [i \in DOMAIN list |-> \A j \in 1..(i - 1) : list[j] # list[i]]
        keep[i \in 0..Len(list)] ==
            IF i = 0 THEN <<>>
            ELSE IF firstAt[i] THEN Append(keep[i - 1], list[i]) ELSE keep[i - 1]
    IN  keep[Len(list)]

\* others.sort((a, b) => ISLAND_ORDER.indexOf(a) - ISLAND_ORDER.indexOf(b)),
\* a stable sort
RECURSIVE sortByIslandOrder(_)
sortByIslandOrder(list) ==
    IF list = <<>> THEN <<>>
    ELSE LET n      == Len(list)
             x      == list[n]
             sorted == sortByIslandOrder(SubSeq(list, 1, n - 1))
             k      == Cardinality({i \in DOMAIN sorted :
                           islandOrderIndex(sorted[i]) <= islandOrderIndex(x)})
         IN  SubSeq(sorted, 1, k) \o <<x>> \o SubSeq(sorted, k + 1, Len(sorted))

\* locationIslandIds: the island each selected location resolves to, in
\* selection order; PB is added as gateway when any other island is visited.
visitedIslandIds(locationIslandIds) ==
    LET ids == DistinctInOrder(locationIslandIds)
    IN  IF (\E i \in DOMAIN ids : ids[i] # "PB") /\ ~Includes(ids, "PB")
        THEN Append(ids, "PB")
        ELSE ids

buildIslandSequence(visitedIds) ==
    LET ids    == DistinctInOrder(visitedIds)
        others == sortByIslandOrder(SelectSeq(ids, LAMBDA id : id # "PB"))
    IN  IF ids = <<>> THEN <<>>
        ELSE IF Includes(ids, "PB") THEN <<"PB">> \o others \o <<"PB">>
        ELSE others

\* typeof x === "number"
TypeofNumber(x) == x.t \in {"num", "nan", "inf"}

ferryTotalC(visited, routes, travelers) ==
    IF visited = <<>> \/ routes = <<>> THEN 0
    ELSE LET sequence == buildIslandSequence(visited)
             legs     == ConsecutivePairs(sequence)
             fare(leg) ==
                 LET route == findFerryRoute(routes, leg[1], leg[2])
                     ops   == routes[route].operators
                     op    == ArrayFind({i \in DOMAIN ops : TypeofNumber(ops[i].sampleFareINR)})
                 IN  IF route = 0 \/ op = 0 THEN 0
                     ELSE safeNum(ops[op].sampleFareINR)
         IN  IF Len(sequence) < 2 THEN 0
             ELSE SumSeq([i \in DOMAIN legs |-> fare(legs[i])]) * travelers

-----------------------------------------------------------------------------
(* The ferry estimate of the planner (SpecFerry) *)

MaxFerryRoutes == 2

Islands == {"PB", "HL", "NL"}

Operator(fare) == [sampleFareINR |-> fare]

FerryRoute(o, d, ops) ==
    [id |-> <<o, d>>, originId |-> o, destinationId |-> d, operators |-> ops]

\* NL-HL is stored against the direction in which it is travelled.
FerryRows ==
    {FerryRoute(pr[1], pr[2], ops) :
        pr  \in {<<"PB", "HL">>, <<"NL", "HL">>, <<"PB", "NL">>},
        ops \in { <<>>,
                  <<Operator(Num(2000)), Operator(Num(1500))>>,
                  <<Operator(Num(0)), Operator(Num(1800))>>,
                  <<Operator(Null), Operator(Num(-50))>>,
                  <<Operator(NumStr(900)), Operator(Num(1200))>> }}

AdultChoices == {1, 2, 4}
ChildChoices == {0, 2}

InitFerry ==
    /\ ferryRoutes \in TablesOf(FerryRows, MaxFerryRoutes)
    /\ cabs = <<>>
    /\ hotels = <<>>
    /\ adventures = <<>>
    /\ pricingConfig = DefaultPricingA
    /\ scooterPlans = <<>>
    /\ bicyclePlans = <<>>
    /\ InitialIslands
    /\ InitialTravellers
    /\ InitialHotelSelection
    /\ InitialAdventures
    /\ InitialTransportSelection
    /\ InitialOptions
    /\ InitialBrowse
    /\ NoHelperCall
    /\ InitialLocationSelection
    /\ LoadEnded
    /\ cabLegs = <<>>
    /\ InitCabCalls

ToggleIsland_DropsHotel ==
    \E id \in Islands :
        /\ selectedIslands' =
               IF Includes(selectedIslands, id)
               THEN SelectSeq(selectedIslands, LAMBDA x : x # id)
               ELSE Append(selectedIslands, id)
        /\ selectedHotelsByIsland' =
               SelectSeq(selectedHotelsByIsland, LAMBDA e : e.islandId # id)
        /\ UNCHANGED <<cabVars, ferryRoutes, adults, children, dataVars, hotelSelections,
                       selectedHotelId, selectedAdventureIds, transportSelVars, optionVars,
                       browseVars, helperVars, locSelVars, loadVars>>

\* toggleIsland(id): remove the id when present, append it otherwise.
ToggleIsland ==
    \E id \in Islands :
        /\ selectedIslands' =
               IF Includes(selectedIslands, id)
               THEN SelectSeq(selectedIslands, LAMBDA x : x # id)
               ELSE Append(selectedIslands, id)
        /\ UNCHANGED <<cabVars, ferryRoutes, adults, children, otherThanFerry>>

SetAdults ==
    \E n \in AdultChoices :
        /\ adults' = Num(n)
        /\ UNCHANGED <<cabVars, ferryRoutes, selectedIslands, children, otherThanFerry>>

SetChildren ==
    \E n \in ChildChoices :
        /\ children' = Num(n)
        /\ UNCHANGED <<cabVars, ferryRoutes, selectedIslands, adults, otherThanFerry>>

NextFerry == ToggleIsland \/ SetAdults \/ SetChildren

SpecFerry == InitFerry /\ [][NextFerry]_vars

-----------------------------------------------------------------------------
(* Claims about the ferry estimate (SpecFerry) *)

HubAndOther(selected) ==
    Includes(selected, "PB") /\ \E i \in DOMAIN selected : selected[i] # "PB"

\* The islands a list of legs passes through.
VisitOf(legs) ==
    IF legs = <<>> THEN <<>>
    ELSE <<legs[1][1]>> \o [i \in DOMAIN legs |-> legs[i][2]]

\* seq is PB, every other selected island exactly once, PB.
IsHubLoop(seq, selected) ==
    LET others == {selected[i] : i \in DOMAIN selected} \ {"PB"}
    IN  /\ Len(seq) = Cardinality(others) + 2
        /\ seq[1] = "PB"
        /\ seq[Len(seq)] = "PB"
        /\ \A x \in others :
               Cardinality({i \in 2..(Len(seq) - 1) : seq[i] = x}) = 1

SequenceA == suggestedIslandOrder(selectedIslands)
SequenceB == VisitOf(ferryLegs(selectedIslands))
SequenceC == buildIslandSequence(visitedIslandIds(selectedIslands))

\* C2: whenever the selection holds PB and at least one other island, the
\* legs priced by each variant form the sequence PB, every other selected
\* island exactly once, and a closing leg back to PB.
C2_HubLoop ==
    HubAndOther(selectedIslands) =>
        /\ IsHubLoop(SequenceB, selectedIslands)
        /\ IsHubLoop(SequenceC, selectedIslands)
        /\ IsHubLoop(SequenceA, selectedIslands)

\* The minimum sampleFareINR over the operators with a positive numeric fare,
\* 0 when there is none.
MinPositiveFare(route) ==
    LET fares == {route.operators[i].sampleFareINR.v :
                     i \in {j \in DOMAIN route.operators :
                               /\ route.operators[j].sampleFareINR.t = "num"
                               /\ route.operators[j].sampleFareINR.v > 0}}
    IN  IF fares = {} THEN 0 ELSE MathMin(fares)

\* What the legs of a sequence add up to when every leg whose route is found
\* adds travellers times the minimum positive fare of that route.
LegAmounts(seq, travellers) ==
    LET legs == ConsecutivePairs(seq)
        amount(leg) ==
            LET r == findFerryRoute(ferryRoutes, leg[1], leg[2])
            IN  IF r = 0 THEN 0 ELSE travellers * MinPositiveFare(ferryRoutes[r])
    IN  SumSeq([i \in DOMAIN legs |-> amount(legs[i])])

FerryTotalOfA ==
    ferryTotalA(suggestedFerryRouteIds(ferryRoutes, selectedIslands), ferryRoutes,
                travellerCount(adults, children))
FerryTotalOfB == estimateFerryCost(selectedIslands, ferryRoutes, adults)
FerryTotalOfC ==
    ferryTotalC(visitedIslandIds(selectedIslands), ferryRoutes,
                travelersCount(adults, children))

\* C3: in each variant the ferry total is the sum, over the legs of its
\* sequence whose route is found, of the traveller count times the minimum
\* sampleFareINR among the route's operators with a positive numeric fare
\* (0 for a route without such an operator).
C3_MinPositiveFare ==
    /\ FerryTotalOfB = LegAmounts(SequenceB, safeNum(adults))
    /\ FerryTotalOfA = LegAmounts(SequenceA, travellerCount(adults, children))
    /\ FerryTotalOfC = LegAmounts(SequenceC, travelersCount(adults, children))

\* The routes that may be used for the pair (from, to): those stored in the
\* queried direction when there is one, otherwise those stored reversed.
RoutesForPair(from, to) ==
    LET direct   == {i \in DOMAIN ferryRoutes :
                        /\ ferryRoutes[i].originId = from
                        /\ ferryRoutes[i].destinationId = to}
        reversed == {i \in DOMAIN ferryRoutes :
                        /\ ferryRoutes[i].originId = to
                        /\ ferryRoutes[i].destinationId = from}
    IN  IF direct # {} THEN direct ELSE reversed

\* What a variant adds to its ferry total for a pair that uses route i.
PairAmount(variant, i) ==
    LET route == ferryRoutes[i]
        ops   == route.operators
        op    == ArrayFind({k \in DOMAIN ops : TypeofNumber(ops[k].sampleFareINR)})
    IN  CASE variant = "A" ->
                 getFerryMinFarePerPerson(route) * travellerCount(adults, children)
          [] variant = "B" -> minOperatorFare(route) * safeNum(adults)
          [] variant = "C" ->
                 (IF op = 0 THEN 0 ELSE safeNum(ops[op].sampleFareINR))
                     * travelersCount(adults, children)

\* The totals that pricing every consecutive pair of seq can give: a pair
\* without a route adds 0, and the pairs after it are priced all the same.
RECURSIVE PairTotals(_, _)
PairTotals(seq, variant) ==
    IF Len(seq) < 2 THEN {0}
    ELSE LET usable == RoutesForPair(seq[1], seq[2])
             first  == IF usable = {} THEN {0}
                       ELSE {PairAmount(variant, i) : i \in usable}
         IN  {x + y : x \in first, y \in PairTotals(Tail(seq), variant)}

-----------------------------------------------------------------------------
(* Variant B: the cab daily rate table of useDerivedData *)

\* `${r.islandId || "??"}|${r.vehicleClass || "sedan"}`, split again at "|"
\* (ids are taken not to contain "|"); "" stands for a missing field.
cabRateKey(r) ==
    << IF r.islandId = "" THEN "??" ELSE r.islandId,
       IF r.vehicleClass = "" THEN "sedan" ELSE r.vehicleClass >>

\* if (safeNum(x) > 0) list.push(safeNum(x)), over the rows of one group
positiveFares(values) ==
    SelectSeq([i \in DOMAIN values |-> safeNum(values[i])], LAMBDA v : v > 0)

\* [...arr].sort((a, b) => a - b)
RECURSIVE sortAscending(_)
sortAscending(arr) ==
    IF arr = <<>> THEN <<>>
    ELSE LET n      == Len(arr)
             x      == arr[n]
             sorted == sortAscending(SubSeq(arr, 1, n - 1))
             k      == Cardinality({i \in DOMAIN sorted : sorted[i] <= x})
         IN  SubSeq(sorted, 1, k) \o <<x>> \o SubSeq(sorted, k + 1, Len(sorted))

\* Mutant of median: the list is not sorted before the middle is taken.
median_Unsorted(arr) ==
    IF arr = <<>> THEN RZero
    ELSE LET mid == Len(arr) \div 2
         IN  IF Len(arr) % 2 = 0
             THEN RDivInt(RInt(arr[mid] + arr[mid + 1]), 2)
             ELSE RInt(arr[mid + 1])

\* mid = Math.floor(length / 2) is a zero-based index: sorted[mid] is the
\* element at position mid + 1.
median(arr) ==
    IF arr = <<>> THEN RZero
    ELSE LET sorted == sortAscending(arr)
             mid    == Len(sorted) \div 2
         IN  IF Len(sorted) % 2 = 0
             THEN RDivInt(RInt(sorted[mid] + sorted[mid + 1]), 2)
             ELSE RInt(sorted[mid + 1])

\* cabDailyRates[islandId][vehicleClass], as a function of the pair
cabDailyRates(cabRows) ==
    LET keys     == {cabRateKey(cabRows[i]) : i \in DOMAIN cabRows}
        group(k) == SelectSeq(cabRows, LAMBDA r : cabRateKey(r) = k)
        day(k)   == positiveFares([i \in DOMAIN group(k) |-> group(k)[i].dayFareINR])
        night(k) == positiveFares([i \in DOMAIN group(k) |-> group(k)[i].nightFareINR])
    IN  [k \in keys |-> [vehicleClass |-> k[2],
                         day          |-> median(day(k)),
                         night        |-> median(night(k))]]

-----------------------------------------------------------------------------
(* Loading the cab rate rows (SpecIndex) *)

MaxCabRows == 3

CabRateRows ==
    {[islandId |-> g[1], vehicleClass |-> g[2], dayFareINR |-> f[1], nightFareINR |-> f[2]] :
        g \in {<<"PB", "sedan">>, <<"PB", "">>, <<"", "suv">>},
        f \in { <<Num(1000), Null>>,
                <<Num(1200), Num(1500)>>,
                <<Num(1400), Num(1700)>>,
                <<Num(0), Num(-300)>>,
                <<NumStr(900), Num(1900)>> }}

\* usePublicData starts with cabs: [].
InitIndex ==
    /\ cabs = <<>>
    /\ ferryRoutes = <<>>
    /\ hotels = <<>>
    /\ adventures = <<>>
    /\ pricingConfig = DefaultPricingA
    /\ scooterPlans = <<>>
    /\ bicyclePlans = <<>>
    /\ InitialIslands
    /\ InitialTravellers
    /\ InitialHotelSelection
    /\ InitialAdventures
    /\ InitialTransportSelection
    /\ InitialOptions
    /\ InitialBrowse
    /\ NoHelperCall
    /\ InitialLocationSelection
    /\ LoadEnded
    /\ cabLegs = <<>>
    /\ InitCabCalls

\* The load effect of usePublicData, which runs once, stores the fetched rows.
PublicDataLoaded ==
    /\ cabs = <<>>
    /\ cabs' \in TablesOf(CabRateRows, MaxCabRows)
    /\ UNCHANGED <<cabVars, browseVars, helperVars, locSelVars, loadVars, ferryVars, hotels, adventures, pricingConfig, scooterPlans,
                   bicyclePlans, hotelSelVars, selectedAdventureIds, transportSelVars, optionVars>>

NextIndex == PublicDataLoaded

SpecIndex == InitIndex /\ [][NextIndex]_vars

-----------------------------------------------------------------------------
(* Claims about the cab daily rate table (SpecIndex) *)

\* The k-th smallest of a list of numbers, by counting.
KthSmallest(values, k) ==
    CHOOSE x \in {values[i] : i \in DOMAIN values} :
        /\ Cardinality({i \in DOMAIN values : values[i] < x}) < k
        /\ Cardinality({i \in DOMAIN values : values[i] <= x}) >= k

\* The median as the statement defines it.
MedianOf(values) ==
    LET n == Len(values)
    IN  IF n = 0 THEN RZero
        ELSE IF n % 2 = 1 THEN RInt(KthSmallest(values, (n + 1) \div 2))
        ELSE RDivInt(RInt(KthSmallest(values, n \div 2)
                          + KthSmallest(values, n \div 2 + 1)), 2)

\* The strictly positive numeric values of a list of fare fields.
StrictlyPositive(fields) ==
    LET pos == SelectSeq(fields, LAMBDA x : IsPositiveNumber(x))
    IN  [i \in DOMAIN pos |-> pos[i].v]

DayFares(rows)   == [i \in DOMAIN rows |-> rows[i].dayFareINR]
NightFares(rows) == [i \in DOMAIN rows |-> rows[i].nightFareINR]

\* The group a row is counted in: a row without islandId under "??", a row
\* without vehicleClass under "sedan".
GroupWithDefaults(r) ==
    << IF r.islandId = "" THEN "??" ELSE r.islandId,
       IF r.vehicleClass = "" THEN "sedan" ELSE r.vehicleClass >>

EntryIsMedianOf(table, k, rows) ==
    /\ k \in DOMAIN table
    /\ table[k].day = MedianOf(StrictlyPositive(DayFares(rows)))
    /\ table[k].night = MedianOf(StrictlyPositive(NightFares(rows)))

\* C7 as stated: for every (islandId, vehicleClass) carried by a cab row, the
\* table entry of that pair holds the median of the strictly positive
\* dayFareINR values, and separately of the strictly positive nightFareINR
\* values, of the rows that carry that islandId and that vehicleClass.
C7_AsStated ==
    \A i \in DOMAIN cabs :
        (cabs[i].islandId # "" /\ cabs[i].vehicleClass # "") =>
            EntryIsMedianOf(cabDailyRates(cabs),
                <<cabs[i].islandId, cabs[i].vehicleClass>>,
                SelectSeq(cabs, LAMBDA r : /\ r.islandId = cabs[i].islandId
                                           /\ r.vehicleClass = cabs[i].vehicleClass))

\* C7 amended: the same for the groups the rows are counted in, where a row
\* without islandId counts under "??" and a row without vehicleClass under
\* "sedan"; the table has an entry for exactly these groups.
C7_MedianPerGroup ==
    /\ DOMAIN cabDailyRates(cabs) = {GroupWithDefaults(cabs[i]) : i \in DOMAIN cabs}
    /\ \A i \in DOMAIN cabs :
           EntryIsMedianOf(cabDailyRates(cabs), GroupWithDefaults(cabs[i]),
               SelectSeq(cabs, LAMBDA r : GroupWithDefaults(r) = GroupWithDefaults(cabs[i])))

\* C7 witness: three loaded rows of one group carry the day fares 1400, 1000,
\* 1200 in that order and two positive night fares; the entry is 1200 by day
\* and 1600 by night.
C7_Witness ==
    /\ Len(cabs) = 3
    /\ \A i \in DOMAIN cabs : GroupWithDefaults(cabs[i]) = <<"PB", "sedan">>
    /\ DayFares(cabs) = <<Num(1400), Num(1000), Num(1200)>>
    /\ cabDailyRates(cabs)[<<"PB", "sedan">>].day = RInt(1200)
    /\ cabDailyRates(cabs)[<<"PB", "sedan">>].night = RInt(1600)

-----------------------------------------------------------------------------
(* Hotels *)

RECURSIVE RSumSeq(_)
RSumSeq(s) == IF s = <<>> THEN RZero ELSE RAdd(s[1], RSumSeq(Tail(s)))

\* Variant B: MARKUP = { cab: 0.1, hotel: 0.2, activity: 0.15 }
MARKUP == [cab |-> Rat(1, 10), hotel |-> Rat(1, 5), activity |-> Rat(3, 20)]

OnePlus(markup) == RAdd(RInt(1), markup)

\* a || b on two numbers
OrNum(a, b) == IF a # 0 THEN a ELSE b

\* safeNum(hotel.typicalCoupleINR) || safeNum(hotel.minNightlyINR) || safeNum(hotel.maxNightlyINR)
hotelNightly(hotel) ==
    OrNum(OrNum(safeNum(hotel.typicalCoupleINR), safeNum(hotel.minNightlyINR)),
          safeNum(hotel.maxNightlyINR))

\* Variant B: one breakdown line per entry of hotelSelections, in the order of
\* Object.values.
hotelsBreakdown(selections) ==
    [i \in DOMAIN selections |->
        LET nightly == hotelNightly(selections[i].hotel)
            raw     == nightly * safeNum(selections[i].nights)
        IN  [hotelId |-> selections[i].hotelId,
             nights  |-> selections[i].nights,
             nightly |-> nightly,
             total   |-> RMul(RInt(raw), OnePlus(MARKUP.hotel))]]

hotelsCost(selections) ==
    LET lines == hotelsBreakdown(selections)
    IN  RSumSeq([i \in DOMAIN lines |-> lines[i].total])

\* Variant A: hotelsByIsland[islandId], the hotels of one island in table order
hotelsByIsland(hotelRows, islandId) ==
    SelectSeq(hotelRows, LAMBDA h : h.islandId = islandId)

\* Variant A: hotelTotal; sel.nights || 1 and sel.rooms || 1
hotelTotalA(byIsland, hotelRows) ==
    LET amount(entry) ==
            LET list  == hotelsByIsland(hotelRows, entry.islandId)
                hotel == ArrayFind({i \in DOMAIN list : list[i].id = entry.hotelId})
            IN  IF hotel = 0 THEN 0
                ELSE safeNum(list[hotel].basePricePerNightINR)
                         * OrNum(entry.nights, 1) * OrNum(entry.rooms, 1)
    IN  SumSeq([i \in DOMAIN byIsland |-> amount(byIsland[i])])

\* Variant C: tripDays and tripNights from the number of selected locations
tripDays(locationCount) ==
    IF locationCount = 0 THEN 0
    ELSE MathMax(1, (locationCount + 2) \div 3)

tripNights(days) == IF days = 0 THEN 0 ELSE MathMax(1, days - 1)

\* Math.ceil(a / b) for a >= 0, b > 0
CeilDiv(a, b) == (a + b - 1) \div b

\* Variant C: hotelTotal; hotel.basePricePerNightINR || hotel.basePriceINR
hotelTotalC(hotelId, hotelRows, nights, travelers) ==
    IF nights = 0 \/ hotelRows = <<>> \/ hotelId = "" THEN 0
    ELSE LET hotel == ArrayFind({i \in DOMAIN hotelRows : hotelRows[i].id = hotelId})
         IN  IF hotel = 0 THEN 0
             ELSE LET h       == hotelRows[hotel]
                      nightly == safeNum(IF Truthy(h.basePricePerNightINR)
                                         THEN h.basePricePerNightINR
                                         ELSE h.basePriceINR)
                      roomsNeeded == MathMax(1, CeilDiv(travelers, 2))
                  IN  nightly * nights * roomsNeeded

-----------------------------------------------------------------------------
(* Choosing hotels (SpecHotel) *)

MaxNights == 3
MaxRooms == 2

Hotel(id, island, typical, min, max, base) ==
    [id |-> id, islandId |-> island,
     typicalCoupleINR |-> typical, minNightlyINR |-> min, maxNightlyINR |-> max,
     basePricePerNightINR |-> base, basePriceINR |-> Null]

\* One Port Blair hotel, alone or followed by a Havelock hotel.
HotelTables ==
    LET PortBlairHotels ==
            {Hotel("h1", "PB", typical, min, max, base) :
                typical \in {Num(6500), Null, Num(0)},
                min     \in {Num(5000), Null},
                max     \in {Num(8000), NumStr(8000)},
                base    \in {Num(6500), Null}}
        HavelockHotel == Hotel("h2", "HL", Num(9000), Null, Null, Num(7000))
    IN  {<<h>> : h \in PortBlairHotels} \cup {<<h, HavelockHotel>> : h \in PortBlairHotels}

InitHotel ==
    /\ hotels \in HotelTables
    /\ ferryRoutes = <<>>
    /\ cabs = <<>>
    /\ adventures = <<>>
    /\ pricingConfig = DefaultPricingA
    /\ scooterPlans = <<>>
    /\ bicyclePlans = <<>>
    /\ InitialIslands
    /\ InitialTravellers
    /\ InitialHotelSelection
    /\ InitialAdventures
    /\ InitialTransportSelection
    /\ InitialOptions
    /\ InitialBrowse
    /\ NoHelperCall
    /\ InitialLocationSelection
    /\ LoadEnded
    /\ cabLegs = <<>>
    /\ InitCabCalls

otherThanHotelSel ==
    <<cabVars, ferryVars, dataVars, selectedAdventureIds, transportSelVars, optionVars,
      browseVars, helperVars, locSelVars, loadVars>>

\* An object keeps the position of a key that is assigned again and puts a
\* new key last.
SetEntry(entries, at, entry) ==
    IF at # {}
    THEN [i \in DOMAIN entries |-> IF i \in at THEN entry ELSE entries[i]]
    ELSE Append(entries, entry)

\* What setHotelNights can be handed: a number, or nothing.
NightInputs == {Num(n) : n \in -1..MaxNights} \cup {Null}

setHotelNights_KeepAll(prev, hotel, nightsForHotel) ==
    SetEntry(prev, {i \in DOMAIN prev : prev[i].hotelId = hotel.id},
             [hotelId |-> hotel.id, hotel |-> hotel, nights |-> nightsForHotel])

\* Variant B, setHotelNights(hotel, nightsForHotel):
\*   if (!nightsForHotel || nightsForHotel <= 0) delete next[hotel.id]
\*   else next[hotel.id] = {hotel, nights: nightsForHotel}
setHotelNights(prev, hotel, nightsForHotel) ==
    IF ~Truthy(nightsForHotel)
          \/ (ToNumber(nightsForHotel).t = "num" /\ ToNumber(nightsForHotel).v <= 0)
    THEN SelectSeq(prev, LAMBDA e : e.hotelId # hotel.id)
    ELSE SetEntry(prev, {i \in DOMAIN prev : prev[i].hotelId = hotel.id},
                  [hotelId |-> hotel.id, hotel |-> hotel, nights |-> nightsForHotel])

\* setHotelNights(h, Number(e.target.value) || 0) from the "Nights here" field
SetHotelNights ==
    \E h \in DOMAIN hotels, nightsForHotel \in NightInputs :
        /\ hotelSelections' = setHotelNights(hotelSelections, hotels[h], nightsForHotel)
        /\ UNCHANGED <<otherThanHotelSel, selectedHotelsByIsland, selectedHotelId>>

\* totalNights with no dates and no override entered
DefaultTotalNights == 4

\* Variant A, handleSelectHotel(islandId, hotelId) from the select of a selected
\* island that has hotels; "" is the placeholder option.
HandleSelectHotel ==
    \E i \in DOMAIN selectedIslands :
        LET islandId == selectedIslands[i]
            list     == hotelsByIsland(hotels, islandId)
            prev     == SelectSeq(selectedHotelsByIsland, LAMBDA e : e.islandId = islandId)
        IN  /\ list # <<>>
            /\ \E hotelId \in {list[k].id : k \in DOMAIN list} \cup {""} :
                   selectedHotelsByIsland' =
                       SetEntry(selectedHotelsByIsland,
                           {k \in DOMAIN selectedHotelsByIsland :
                               selectedHotelsByIsland[k].islandId = islandId},
                           [islandId |-> islandId,
                            hotelId  |-> hotelId,
                            nights   |-> IF prev # <<>> /\ prev[1].nights # 0
                                         THEN prev[1].nights
                                         ELSE MathMax(1, OrNum(DefaultTotalNights
                                                  \div Len(selectedIslands), 1)),
                            rooms    |-> IF prev # <<>> /\ prev[1].rooms # 0
                                         THEN prev[1].rooms ELSE 1])
            /\ UNCHANGED <<otherThanHotelSel, hotelSelections, selectedHotelId>>

\* The deltas handed to the update handlers: the -1 and 1 of the stepper
\* buttons, and a larger step down.
StepDeltas == {-5, -1, 1}

\* Variant A, updateHotelNights(islandId, delta) as a function of prev
updateHotelNights(prev, islandId, delta) ==
    LET at == {i \in DOMAIN prev : prev[i].islandId = islandId}
    IN  IF at = {} THEN prev
        ELSE [i \in DOMAIN prev |->
                 IF i \in at
                 THEN [prev[i] EXCEPT !.nights = MathMax(1, OrNum(prev[i].nights, 1) + delta)]
                 ELSE prev[i]]

\* Variant A, updateHotelRooms(islandId, delta) as a function of prev
updateHotelRooms(prev, islandId, delta) ==
    LET at == {i \in DOMAIN prev : prev[i].islandId = islandId}
    IN  IF at = {} THEN prev
        ELSE [i \in DOMAIN prev |->
                 IF i \in at
                 THEN [prev[i] EXCEPT !.rooms = MathMax(1, OrNum(prev[i].rooms, 1) + delta)]
                 ELSE prev[i]]

\* Variant A, updateHotelNights(islandId, delta) from the stepper buttons
UpdateHotelNights ==
    \E islandId \in Islands, delta \in StepDeltas :
        /\ selectedHotelsByIsland' = updateHotelNights(selectedHotelsByIsland, islandId, delta)
        /\ \A i \in DOMAIN selectedHotelsByIsland' :
               selectedHotelsByIsland'[i].nights <= MaxNights
        /\ UNCHANGED <<otherThanHotelSel, hotelSelections, selectedHotelId>>

\* Variant A, updateHotelRooms(islandId, delta)
UpdateHotelRooms ==
    \E islandId \in Islands, delta \in StepDeltas :
        /\ selectedHotelsByIsland' = updateHotelRooms(selectedHotelsByIsland, islandId, delta)
        /\ \A i \in DOMAIN selectedHotelsByIsland' :
               selectedHotelsByIsland'[i].rooms <= MaxRooms
        /\ UNCHANGED <<otherThanHotelSel, hotelSelections, selectedHotelId>>

NextHotel == SetHotelNights \/ HandleSelectHotel \/ UpdateHotelNights \/ UpdateHotelRooms

SpecHotel == InitHotel /\ [][NextHotel]_vars

-----------------------------------------------------------------------------
(* Claims about the hotel total (SpecHotel) *)

IsUsable(x) == x.t = "num" /\ x.v # 0

\* The first usable value of typicalCoupleINR, minNightlyINR, maxNightlyINR, or 0.
FallbackNightly(hotel) ==
    IF IsUsable(hotel.typicalCoupleINR) THEN hotel.typicalCoupleINR.v
    ELSE IF IsUsable(hotel.minNightlyINR) THEN hotel.minNightlyINR.v
    ELSE IF IsUsable(hotel.maxNightlyINR) THEN hotel.maxNightlyINR.v
    ELSE 0

\* nightly * nights * (1 + 0.2)
HotelLine(hotel, nights) == RMul(RInt(FallbackNightly(hotel) * nights), Rat(6, 5))

\* The hotels of variant A that have nights assigned: the entries of
\* selectedHotelsByIsland whose hotel is in the table.
AssignedHotelsA ==
    SelectSeq(selectedHotelsByIsland,
        LAMBDA e : \E k \in DOMAIN hotels :
                       hotels[k].islandId = e.islandId /\ hotels[k].id = e.hotelId)

HotelOfA(e) ==
    hotels[CHOOSE k \in DOMAIN hotels :
               hotels[k].islandId = e.islandId /\ hotels[k].id = e.hotelId]

\* C8: every hotel with assigned nights has the line total
\* nightly * nights * (1 + 0.2), nightly being the first usable of
\* typicalCoupleINR, minNightlyINR, maxNightlyINR or 0, and the hotel total of
\* each variant is the sum of these line totals.
C8_HotelLineTotals ==
    /\ \A i \in DOMAIN hotelSelections :
           hotelsBreakdown(hotelSelections)[i].total =
               HotelLine(hotelSelections[i].hotel, hotelSelections[i].nights.v)
    /\ hotelsCost(hotelSelections) =
           RSumSeq([i \in DOMAIN hotelSelections |->
               HotelLine(hotelSelections[i].hotel, hotelSelections[i].nights.v)])
    /\ RInt(hotelTotalA(selectedHotelsByIsland, hotels)) =
           RSumSeq([i \in DOMAIN AssignedHotelsA |->
               HotelLine(HotelOfA(AssignedHotelsA[i]), AssignedHotelsA[i].nights)])

-----------------------------------------------------------------------------
(* Activities *)

\* adventureById / activitiesById: map[row.id] = row for each row in turn, so a
\* later row replaces an earlier one with the same id; 0 when the id is absent.
\* (Rows carry no slug.)
byId(rows, id) ==
    LET at == {i \in DOMAIN rows : rows[i].id = id}
    IN  IF at = {} THEN 0 ELSE CHOOSE i \in at : \A j \in at : j <= i

\* adv.unit || "per_person"
unitOf(adv) == IF adv.unit = "" THEN "per_person" ELSE adv.unit

\* Variant B: multiplier of a breakdown line
activityMultiplier(unit, adultsField) ==
    IF unit = "per_person" THEN OrNum(safeNum(adultsField), 1) ELSE 1

\* Variant B: one breakdown line per selected id whose activity exists and has
\* a non-zero base price.
activityBreakdown(selectedIds, rows, adultsField) ==
    LET priced == SelectSeq(selectedIds,
                      LAMBDA id : /\ byId(rows, id) # 0
                                  /\ safeNum(rows[byId(rows, id)].basePriceINR) # 0)
    IN  [i \in DOMAIN priced |->
            LET adv        == rows[byId(rows, priced[i])]
                base       == safeNum(adv.basePriceINR)
                multiplier == activityMultiplier(unitOf(adv), adultsField)
            IN  [id         |-> adv.id,
                 unit       |-> unitOf(adv),
                 base       |-> base,
                 multiplier |-> multiplier,
                 total      |-> RMul(RInt(base * multiplier), OnePlus(MARKUP.activity))]]

activityCost(selectedIds, rows, adultsField) ==
    LET lines == activityBreakdown(selectedIds, rows, adultsField)
    IN  RSumSeq([i \in DOMAIN lines |-> lines[i].total])

\* Variant A: adventureTotal walks the table and adds the rows toggled on.
adventureTotal(rows, selectedIds, travellers) ==
    LET amount(adv) ==
            LET unit == unitOf(adv)
                base == safeNum(adv.basePriceINR)
            IN  IF ~Includes(selectedIds, adv.id) THEN 0
                ELSE IF unit = "per_person" THEN base * travellers
                ELSE IF unit = "per_trip" \/ unit = "per_boat" THEN base
                ELSE base * travellers
    IN  SumSeq([i \in DOMAIN rows |-> amount(rows[i])])

\* Variant C: activitiesTotal
activitiesTotal(selectedIds, rows, travelers) ==
    LET price(id) == IF byId(rows, id) = 0 THEN 0
                     ELSE safeNum(rows[byId(rows, id)].basePriceINR)
    IN  SumSeq([i \in DOMAIN selectedIds |-> price(selectedIds[i])]) * travelers

-----------------------------------------------------------------------------
(* Choosing activities (SpecActivity) *)

Units == {"per_person", "per_group", "per_boat", "per_vehicle", "per_trip", ""}

Adventure(id, unit, base) == [id |-> id, unit |-> unit, basePriceINR |-> base]

\* One adventure of any unit, alone or followed by a per-person adventure.
AdventureTables ==
    LET FirstAdventures ==
            {Adventure("a1", unit, base) :
                unit \in Units, base \in {Num(1500), Null, NumStr(1500)}}
        SecondAdventure == Adventure("a2", "per_person", Num(1000))
    IN  {<<a>> : a \in FirstAdventures} \cup {<<a, SecondAdventure>> : a \in FirstAdventures}

InitActivity ==
    /\ adventures \in AdventureTables
    /\ ferryRoutes = <<>>
    /\ cabs = <<>>
    /\ hotels = <<>>
    /\ pricingConfig = DefaultPricingA
    /\ scooterPlans = <<>>
    /\ bicyclePlans = <<>>
    /\ InitialIslands
    /\ InitialTravellers
    /\ InitialHotelSelection
    /\ InitialAdventures
    /\ InitialTransportSelection
    /\ InitialOptions
    /\ InitialBrowse
    /\ NoHelperCall
    /\ InitialLocationSelection
    /\ LoadEnded
    /\ cabLegs = <<>>
    /\ InitCabCalls

\* toggleAdventure(id) / toggleActivity(id) of an activity on display
ToggleAdventure ==
    \E k \in DOMAIN adventures :
        LET id == adventures[k].id
        IN  /\ selectedAdventureIds' =
                   IF Includes(selectedAdventureIds, id)
                   THEN SelectSeq(selectedAdventureIds, LAMBDA x : x # id)
                   ELSE Append(selectedAdventureIds, id)
            /\ UNCHANGED <<cabVars, browseVars, helperVars, locSelVars, loadVars, ferryVars, dataVars, hotelSelVars, transportSelVars, optionVars>>

NextActivity == ToggleAdventure \/ SetAdults \/ SetChildren

SpecActivity == InitActivity /\ [][NextActivity]_vars

-----------------------------------------------------------------------------
(* Claims about the activities total (SpecActivity) *)

\* The traveller count for a per_person activity, 1 for the other units.
UnitMultiplier(unit, travellers) ==
    IF unit \in {"per_group", "per_boat", "per_vehicle", "per_trip"} THEN 1
    ELSE travellers

\* basePriceINR * unitMultiplier * (1 + 0.15); a base price that is not a
\* number counts as 0 and an activity without unit as per_person.
ActivityLine(adv, travellers) ==
    RMul(RInt((IF adv.basePriceINR.t = "num" THEN adv.basePriceINR.v ELSE 0)
              * UnitMultiplier(adv.unit, travellers)),
         Rat(23, 20))

\* What the selected activities that exist in the table contribute together.
ActivityLines(travellers) ==
    LET known == SelectSeq(selectedAdventureIds, LAMBDA id : byId(adventures, id) # 0)
    IN  RSumSeq([i \in DOMAIN known |->
            ActivityLine(adventures[byId(adventures, known[i])], travellers)])

\* C9: in each variant the activities total is the sum, over the selected
\* activities, of basePriceINR * unitMultiplier * (1 + 0.15), the multiplier
\* being the traveller count for per_person and 1 for per_group, per_boat,
\* per_vehicle and per_trip.
C9_ActivityLineTotals ==
    /\ activityCost(selectedAdventureIds, adventures, adults)
           = ActivityLines(OrNum(safeNum(adults), 1))
    /\ RInt(adventureTotal(adventures, selectedAdventureIds, travellerCount(adults, children)))
           = ActivityLines(travellerCount(adults, children))
    /\ RInt(activitiesTotal(selectedAdventureIds, adventures, travelersCount(adults, children)))
           = ActivityLines(travelersCount(adults, children))

-----------------------------------------------------------------------------
(* Cabs and rentals in the totals *)

RIsZero(r) == r.n = 0

\* Variant B: Object.keys(islandRates)[0], the vehicle class of the first cab
\* row of the island; "" when the island has no rates.
firstClassOf(cabRows, islandId) ==
    LET at == {i \in DOMAIN cabRows : cabRateKey(cabRows[i])[1] = islandId}
    IN  IF at = {} THEN "" ELSE cabRateKey(cabRows[ArrayFind(at)])[2]

\* Mutant: the day rate is used whether or not night rates are requested.
cabBaseDaily_DayOnly(cabRows, row, night) ==
    LET rates == cabDailyRates(cabRows)
        key   == <<row.islandId, row.vehicleClass>>
    IN  IF key \notin DOMAIN rates THEN RZero ELSE rates[key].day

\* Variant B: baseDaily of one cabSelections row
cabBaseDaily(cabRows, row, night) ==
    LET islandId == IF row.islandId = "" THEN "PB" ELSE row.islandId
        classKey == IF row.vehicleClass = "" THEN firstClassOf(cabRows, islandId)
                    ELSE row.vehicleClass
        rates    == cabDailyRates(cabRows)
        key      == <<islandId, classKey>>
    IN  IF key \notin DOMAIN rates THEN RZero
        ELSE IF night
             THEN (IF ~RIsZero(rates[key].night) THEN rates[key].night ELSE rates[key].day)
             ELSE (IF ~RIsZero(rates[key].day) THEN rates[key].day ELSE rates[key].night)

cabBreakdown(selections, cabRows, night) ==
    [i \in DOMAIN selections |->
        LET daily == cabBaseDaily(cabRows, selections[i], night)
            days  == safeNum(selections[i].days)
            raw   == RMul(daily, RInt(days))
        IN  [days  |-> days,
             daily |-> daily,
             total |-> RMul(raw, OnePlus(MARKUP.cab))]]

cabCost(selections, cabRows, night) ==
    LET lines == cabBreakdown(selections, cabRows, night)
    IN  RSumSeq([i \in DOMAIN lines |-> lines[i].total])

\* Variant C: cabTotal, the lowest dayFareINR of each visited island times the
\* cars needed.  dayFareINR is a number or null here: a string fare would be
\* concatenated by `total += minFare`, which is not modelled.
cabTotalC(include, visited, cabRows, travelers) ==
    IF ~include \/ visited = <<>> \/ cabRows = <<>> THEN 0
    ELSE LET minFare(islandId) ==
                 LET fares == {cabRows[i].dayFareINR.v :
                                  i \in {j \in DOMAIN cabRows :
                                            /\ cabRows[j].islandId = islandId
                                            /\ cabRows[j].dayFareINR.t = "num"}}
                 IN  IF fares = {} THEN 0 ELSE MathMin(fares)
             carsNeeded == MathMax(1, CeilDiv(travelers, 4))
         IN  SumSeq([i \in DOMAIN visited |-> minFare(visited[i])]) * carsNeeded

\* Variant C: the average daily rate of the rental plans
avgDaily(plans) ==
    RDivInt(RInt(SumSeq([i \in DOMAIN plans |-> safeNum(plans[i].dailyRateINR)])), Len(plans))

scooterTotal(include, days, plans, travelers) ==
    IF ~include \/ days = 0 \/ plans = <<>> THEN RZero
    ELSE RMul(avgDaily(plans), RInt(days * MathMax(1, CeilDiv(travelers, 2))))

bicycleTotal(include, days, plans, travelers) ==
    IF ~include \/ days = 0 \/ plans = <<>> THEN RZero
    ELSE RMul(avgDaily(plans), RInt(days * MathMax(1, travelers)))

\* Variant A imports estimateCabLeg from ./cabPricing, which does not export
\* it.  It is taken from the specification of the fare selection: the night
\* fare when night pricing is requested and that fare is positive, else the
\* day fare, else the other fare; the global multiplier is its default 1.
estimateCabLeg(leg, config, options) ==
    LET day   == leg.dayFareINR
        night == leg.nightFareINR
        fare  == IF options.timeOfDay = "night" /\ IsPositiveNumber(night) THEN night.v
                 ELSE IF IsPositiveNumber(day) THEN day.v
                 ELSE IF IsPositiveNumber(night) THEN night.v
                 ELSE 0
    IN  [perVehicle |-> Num(fare),
         perPerson  |-> Rat(fare, MathMax(1, options.travellers))]

\* Variant A: cabTotal; sel.timeOfDay || "day" and sel.count || 1
cabTotalA(selected, legs, config, travellers) ==
    IF selected = <<>> \/ legs = <<>> THEN 0
    ELSE LET amount(sel) ==
                 LET leg == ArrayFind({i \in DOMAIN legs : legs[i].id = sel.legId})
                     info == estimateCabLeg(legs[leg], config,
                                 [timeOfDay  |-> IF sel.timeOfDay = "" THEN "day"
                                                 ELSE sel.timeOfDay,
                                  travellers |-> travellers])
                 IN  IF leg = 0 THEN 0
                     ELSE safeNum(info.perVehicle) * OrNum(sel.count, 1)
         IN  SumSeq([i \in DOMAIN selected |-> amount(selected[i])])

-----------------------------------------------------------------------------
(* Totals of the three variants in the current state *)

\* Variant A: cabTotal, ferryTotal, hotelTotal, adventureTotal, baseSubtotal,
\* taxAmount, serviceFee, grandTotal
TotalsA ==
    LET travellers == travellerCount(adults, children)
        cab        == cabTotalA(selectedCabLegs, cabLegs, pricingConfig, travellers)
        ferry      == ferryTotalA(selectedFerryRouteIds, ferryRoutes, travellers)
        hotel      == hotelTotalA(selectedHotelsByIsland, hotels)
        adventure  == adventureTotal(adventures, selectedAdventureIds, travellers)
        baseSubtotal == cab + ferry + hotel + adventure
        taxAmount  == IF safeNum(pricingConfig.taxPercent) > 0
                      THEN Rat(baseSubtotal * safeNum(pricingConfig.taxPercent), 100)
                      ELSE RZero
        serviceFee == safeNum(pricingConfig.serviceFee)
    IN  [cabTotal |-> RInt(cab), ferryTotal |-> RInt(ferry), hotelTotal |-> RInt(hotel),
         activityTotal |-> RInt(adventure), subtotal |-> RInt(baseSubtotal),
         shownSubtotal |-> RInt(baseSubtotal),
         taxAmount |-> taxAmount,
         grandTotal |-> RAdd(RAdd(RInt(baseSubtotal), taxAmount), RInt(serviceFee))]

\* Variant B: hotelsCost, cabCost, activityCost, ferryCost, totalTripCost; the
\* loaded meta (taxPercent, serviceFee) is not read by any total.
TotalsB ==
    LET hotel    == hotelsCost(hotelSelections)
        cab      == cabCost(cabSelections, cabs, useNightCabs)
        activity == activityCost(selectedAdventureIds, adventures, adults)
        ferry    == RInt(estimateFerryCost(selectedIslands, ferryRoutes, adults))
        totalTripCost == RAdd(RAdd(RAdd(hotel, cab), activity), ferry)
    IN  [cabTotal |-> cab, ferryTotal |-> ferry, hotelTotal |-> hotel,
         activityTotal |-> activity, subtotal |-> totalTripCost,
         shownSubtotal |-> totalTripCost,
         taxAmount |-> RZero,
         grandTotal |-> totalTripCost]

\* Variant C: activitiesTotal, hotelTotal, scooterTotal, bicycleTotal, cabTotal,
\* ferryTotal, subtotal, taxAmount, serviceFee, grandTotal, and the amount the
\* summary shows as "Subtotal".  The islands of the selected locations are the
\* selected islands: one location is taken to be selected on each.
TotalsC ==
    LET travelers == travelersCount(adults, children)
        visited   == visitedIslandIds(selectedIslands)
        days      == tripDays(Len(selectedIslands))
        nights    == tripNights(days)
        activity  == activitiesTotal(selectedAdventureIds, adventures, travelers)
        hotel     == hotelTotalC(selectedHotelId, hotels, nights, travelers)
        scooter   == scooterTotal(includeScooters, days, scooterPlans, travelers)
        bicycle   == bicycleTotal(includeBicycles, days, bicyclePlans, travelers)
        cab       == cabTotalC(includeCabs, visited, cabs, travelers)
        ferry     == ferryTotalC(visited, ferryRoutes, travelers)
        subtotal  == RAdd(RAdd(RInt(activity + hotel + cab), scooter), bicycle)
        taxAmount == RDivInt(RMul(subtotal, RInt(safeNum(pricingConfig.taxPercent))), 100)
        serviceFee == safeNum(pricingConfig.serviceFee)
    IN  [cabTotal |-> RInt(cab), ferryTotal |-> RInt(ferry), hotelTotal |-> RInt(hotel),
         activityTotal |-> RInt(activity), subtotal |-> subtotal,
         shownSubtotal |-> RAdd(subtotal, RInt(ferry)),
         taxAmount |-> taxAmount,
         grandTotal |-> RAdd(RAdd(subtotal, taxAmount), RInt(serviceFee))]

-----------------------------------------------------------------------------
(* Building an estimate (SpecTotals) *)

MaxSelectedCabLegs == 1

RegularData ==
    [ferryRoutes |-> << FerryRoute("PB", "HL", <<Operator(Num(2000)), Operator(Num(1500))>>),
                        FerryRoute("NL", "HL", <<Operator(Num(1200))>>),
                        FerryRoute("PB", "NL", <<Operator(Num(1300))>>) >>,
     cabs        |-> << [islandId |-> "PB", vehicleClass |-> "sedan",
                         dayFareINR |-> Num(1000), nightFareINR |-> Num(1500)],
                        [islandId |-> "HL", vehicleClass |-> "sedan",
                         dayFareINR |-> Num(1200), nightFareINR |-> Null] >>,
     cabLegs     |-> << [id |-> "c1", islandId |-> "PB",
                         dayFareINR |-> Num(800), nightFareINR |-> Num(1000)] >>,
     hotels      |-> << Hotel("h1", "PB", Num(6500), Num(5000), Num(8000), Num(6500)) >>,
     adventures  |-> << Adventure("a1", "per_person", Num(1500)) >>,
     scooterPlans |-> << [dailyRateINR |-> Num(500)], [dailyRateINR |-> Num(600)] >>,
     bicyclePlans |-> << [dailyRateINR |-> Num(150)] >>]

\* Reference tables with negative, null and string price fields.
HostileData ==
    [ferryRoutes |-> << FerryRoute("PB", "HL", <<Operator(Num(-50)), Operator(Null)>>) >>,
     cabs        |-> << [islandId |-> "PB", vehicleClass |-> "sedan",
                         dayFareINR |-> Num(-200), nightFareINR |-> Null] >>,
     cabLegs     |-> << [id |-> "c1", islandId |-> "PB",
                         dayFareINR |-> Num(-800), nightFareINR |-> Str] >>,
     hotels      |-> << Hotel("h1", "PB", Num(-6500), Null, NumStr(8000), Num(-6500)) >>,
     adventures  |-> << Adventure("a1", "per_person", Num(-400)) >>,
     scooterPlans |-> << [dailyRateINR |-> Num(-500)] >>,
     bicyclePlans |-> << [dailyRateINR |-> Str] >>]

PricingConfigs ==
    {DefaultPricingA, DefaultPricingC, [taxPercent |-> Num(5), serviceFee |-> Num(500)]}

InitTotals ==
    /\ \E d \in {RegularData, HostileData} :
           /\ ferryRoutes = d.ferryRoutes
           /\ cabs = d.cabs
           /\ cabLegs = d.cabLegs
           /\ hotels = d.hotels
           /\ adventures = d.adventures
           /\ scooterPlans = d.scooterPlans
           /\ bicyclePlans = d.bicyclePlans
    /\ pricingConfig \in PricingConfigs
    /\ InitialIslands
    /\ InitialTravellers
    /\ InitialHotelSelection
    /\ InitialAdventures
    /\ InitialTransportSelection
    /\ InitialOptions
    /\ InitialBrowse
    /\ NoHelperCall
    /\ InitialLocationSelection
    /\ LoadEnded
    /\ InitCabCalls

\* Variant C: setSelectedHotelId(e.target.value || null) from the hotel select
SelectHotelC ==
    \E id \in {hotels[k].id : k \in DOMAIN hotels} \cup {""} :
        /\ selectedHotelId' = id
        /\ UNCHANGED <<otherThanHotelSel, hotelSelections, selectedHotelsByIsland>>

\* Variant A: handleUseSuggestedFerries
HandleUseSuggestedFerries ==
    /\ selectedFerryRouteIds' = suggestedFerryRouteIds(ferryRoutes, selectedIslands)
    /\ UNCHANGED <<cabVars, browseVars, helperVars, locSelVars, loadVars, ferryVars, dataVars, hotelSelVars, selectedAdventureIds,
                   cabSelections, useNightCabs, selectedCabLegs, optionVars>>

\* Variant B: setUseNightCabs from the day / night pills
SetUseNightCabs ==
    \E b \in BOOLEAN :
        /\ useNightCabs' = b
        /\ UNCHANGED <<cabVars, browseVars, helperVars, locSelVars, loadVars, ferryVars, dataVars, hotelSelVars, selectedAdventureIds,
                       cabSelections, selectedCabLegs, selectedFerryRouteIds, optionVars>>

\* Variant A: addCabLeg(legId, timeOfDay) for a leg on display
AddCabLeg ==
    \E k \in DOMAIN cabLegs, timeOfDay \in {"day", "night"} :
        /\ Len(selectedCabLegs) < MaxSelectedCabLegs
        /\ selectedCabLegs' = Append(selectedCabLegs,
               [legId |-> cabLegs[k].id, timeOfDay |-> timeOfDay, count |-> 1])
        /\ UNCHANGED <<cabVars, browseVars, helperVars, locSelVars, loadVars, ferryVars, dataVars, hotelSelVars, selectedAdventureIds,
                       cabSelections, useNightCabs, selectedFerryRouteIds, optionVars>>

\* Variant A: removeCabLeg(index)
RemoveCabLeg ==
    \E index \in DOMAIN selectedCabLegs :
        /\ selectedCabLegs' =
               [i \in 1..(Len(selectedCabLegs) - 1) |->
                   IF i < index THEN selectedCabLegs[i] ELSE selectedCabLegs[i + 1]]
        /\ UNCHANGED <<cabVars, browseVars, helperVars, locSelVars, loadVars, ferryVars, dataVars, hotelSelVars, selectedAdventureIds,
                       cabSelections, useNightCabs, selectedFerryRouteIds, optionVars>>

\* Variant C: the option checkboxes
SetIncludeCabs ==
    \E b \in BOOLEAN :
        /\ includeCabs' = b
        /\ UNCHANGED <<cabVars, browseVars, helperVars, locSelVars, loadVars, ferryVars, dataVars, hotelSelVars, selectedAdventureIds,
                       transportSelVars, includeScooters, includeBicycles>>

SetIncludeScooters ==
    \E b \in BOOLEAN :
        /\ includeScooters' = b
        /\ UNCHANGED <<cabVars, browseVars, helperVars, locSelVars, loadVars, ferryVars, dataVars, hotelSelVars, selectedAdventureIds,
                       transportSelVars, includeCabs, includeBicycles>>

SetIncludeBicycles ==
    \E b \in BOOLEAN :
        /\ includeBicycles' = b
        /\ UNCHANGED <<cabVars, browseVars, helperVars, locSelVars, loadVars, ferryVars, dataVars, hotelSelVars, selectedAdventureIds,
                       transportSelVars, includeCabs, includeScooters>>

NextTotals ==
    \/ SetAdults
    \/ SetHotelNights
    \/ HandleSelectHotel
    \/ SelectHotelC
    \/ ToggleAdventure
    \/ HandleUseSuggestedFerries
    \/ SetUseNightCabs
    \/ AddCabLeg
    \/ RemoveCabLeg
    \/ SetIncludeCabs
    \/ SetIncludeScooters
    \/ SetIncludeBicycles

SpecTotals == InitTotals /\ [][NextTotals]_vars

-----------------------------------------------------------------------------
(* Claims about the totals (SpecTotals) *)

\* subtotal + subtotal * taxPercent / 100 + serviceFee
TaxOn(subtotal) ==
    RDivInt(RMul(subtotal, RInt(safeNum(pricingConfig.taxPercent))), 100)

FourCategories(t) ==
    RAdd(RAdd(RAdd(t.hotelTotal, t.cabTotal), t.activityTotal), t.ferryTotal)

GrandTotalAsStated(t) ==
    /\ t.shownSubtotal = FourCategories(t)
    /\ t.taxAmount = TaxOn(FourCategories(t))
    /\ t.grandTotal = RAdd(RAdd(FourCategories(t), TaxOn(FourCategories(t))),
                           RInt(safeNum(pricingConfig.serviceFee)))

\* C1: in each variant the grand total is subtotal + tax + serviceFee, where
\* the subtotal is the sum of the hotel, cab, activity and ferry totals, the
\* tax is subtotal * taxPercent / 100, and the subtotal shown is that subtotal.
C1_GrandTotal ==
    /\ GrandTotalAsStated(TotalsA)
    /\ GrandTotalAsStated(TotalsB)
    /\ GrandTotalAsStated(TotalsC)

RNonNegative(r) == r.n >= 0 /\ r.d > 0

AllNonNegative(t) ==
    /\ RNonNegative(t.hotelTotal)
    /\ RNonNegative(t.cabTotal)
    /\ RNonNegative(t.activityTotal)
    /\ RNonNegative(t.ferryTotal)
    /\ RNonNegative(t.subtotal)
    /\ RNonNegative(t.taxAmount)
    /\ RNonNegative(t.grandTotal)

\* C10: whatever the reference tables hold, every category total, the
\* subtotal, the tax and the grand total of each variant is a non-negative
\* finite number.
C10_NonNegativeTotals ==
    /\ AllNonNegative(TotalsA)
    /\ AllNonNegative(TotalsB)
    /\ AllNonNegative(TotalsC)

-----------------------------------------------------------------------------
(* The three copies of safeNum (SpecSafeNum) *)

\* App.jsx: typeof n === "number" && Number.isFinite(n) ? n : 0
safeNum_App(n) == IF TypeofNumber(n) /\ IsFiniteNumber(n) THEN n ELSE Num(0)

\* Mutant of safeNum_part: the typeof test is dropped, so that the converting
\* isFinite decides alone.
safeNum_NoTypeof(n) == IF ToNumber(n).t = "num" THEN n ELSE Num(0)

\* part_001 and part_002 (the same text in both):
\* typeof n === "number" && isFinite(n) ? n : 0, where the global isFinite
\* converts its argument with ToNumber first.
safeNum_part(n) == IF TypeofNumber(n) /\ ToNumber(n).t = "num" THEN n ELSE Num(0)

MaxMagnitude == 50

\* Finite numbers of both signs, and one value of every other kind:
\* a numeric string, another string, null, undefined, an object, NaN,
\* +Infinity and -Infinity.
SafeNumInputs ==
    {Num(n) : n \in -MaxMagnitude..MaxMagnitude}
        \cup {NumStr(42), Str, Null, NaN, Inf, [t |-> "inf", v |-> -1],
              [t |-> "undefined", v |-> 0], [t |-> "object", v |-> 0]}

InitSafeNum ==
    /\ cabLegs = <<>>
    /\ InitCabCalls
    /\ PlannerUnmounted

\* safeNum(n) is evaluated by each of the three files.
CallSafeNum ==
    \E n \in SafeNumInputs :
        /\ callArg' = n
        /\ callOut' = <<safeNum_App(n), safeNum_part(n), safeNum_part(n)>>
        /\ UNCHANGED <<cabVars, ferryVars, dataVars, hotelSelVars, selectedAdventureIds,
                       transportSelVars, optionVars, browseVars, locSelVars, loadVars>>

SpecSafeNum == InitSafeNum /\ [][CallSafeNum]_vars

\* C11: safeNum returns its argument unchanged when the argument is a finite
\* number and 0 for every other input (strings, numeric strings included, NaN,
\* +Infinity, -Infinity, null, undefined, objects), and the copies of App.jsx,
\* part_001 and part_002 return the same value for every input.
C11_SafeNum ==
    callOut # <<>> =>
        LET expected == IF callArg.t = "num" THEN callArg ELSE Num(0)
        IN  /\ callOut[1] = expected
            /\ callOut[2] = expected
            /\ callOut[3] = expected

\* A numeric string has been passed, and every copy answered 0.
C11_Witness ==
    /\ callOut # <<>>
    /\ callArg = NumStr(42)
    /\ callOut = <<Num(0), Num(0), Num(0)>>

-----------------------------------------------------------------------------
(* The location browser: text helpers *)

\* String.prototype.toLowerCase
toLowerCase(s) ==
    [i \in DOMAIN s |->
        LET at == {k \in DOMAIN UpperCase : UpperCase[k] = s[i]}
        IN  IF at = {} THEN s[i] ELSE LowerCase[CHOOSE k \in at : TRUE]]

\* String.prototype.includes: needle occurs in hay as a contiguous run.
TextIncludes(hay, needle) ==
    \E k \in 0..(Len(hay) - Len(needle)) : SubSeq(hay, k + 1, k + Len(needle)) = needle

\* String.prototype.localeCompare under the default collation, on texts of
\* letters and spaces: letters compare without regard to case and a space
\* sorts before every letter; of two texts that differ in case only, the one
\* with the lower-case letter at the first difference comes first.
\* -1, 0 or 1.
localeCompare(a, b) ==
    LET Collation == <<" ">> \o LowerCase
        rank(c) == LET at == {k \in DOMAIN Collation : Collation[k] = c}
                   IN  IF at = {} THEN 0 ELSE CHOOSE k \in at : TRUE
        la == toLowerCase(a)
        lb == toLowerCase(b)
        n  == IF Len(a) < Len(b) THEN Len(a) ELSE Len(b)
        primary  == {i \in 1..n : rank(la[i]) # rank(lb[i])}
        tertiary == {i \in 1..n : a[i] # b[i]}
    IN  IF primary # {}
        THEN LET i == ArrayFind(primary)
             IN  IF rank(la[i]) < rank(lb[i]) THEN -1 ELSE 1
        ELSE IF Len(a) # Len(b)
        THEN IF Len(a) < Len(b) THEN -1 ELSE 1
        ELSE IF tertiary # {}
        THEN LET i == ArrayFind(tertiary)
             IN  IF la[i] = a[i] THEN -1 ELSE 1
        ELSE 0

-----------------------------------------------------------------------------
(* The location browser: filters of the three variants *)

\* Variant C: extractIslandIdFromName(islandName, islandsById), "" for null.
\* islandsById holds the island rows by id, in the order of the table.
extractIslandIdFromName(islandName, rows) ==
    LET nameLower == toLowerCase(islandName)
        exact     == ArrayFind({i \in DOMAIN rows : rows[i].name = islandName})
        Fuzzy     == << <<<<"p","o","r","t"," ","b","l","a","i","r">>, "PB">>, <<<<"h","a","v","e","l","o","c","k">>, "HL">>, <<<<"s","w","a","r","a","j">>, "HL">>,
                        <<<<"n","e","i","l">>, "NL">>, <<<<"s","h","a","h","e","e","d">>, "NL">>, <<<<"l","o","n","g"," ","i","s","l","a","n","d">>, "LI">>,
                        <<<<"l","i","t","t","l","e"," ","a","n","d","a","m","a","n">>, "LA">>, <<<<"m","a","y","a","b","u","n","d","e","r">>, "MB">>,
                        <<<<"r","a","n","g","a","t">>, "RG">>, <<<<"d","i","g","l","i","p","u","r">>, "DG">>, <<<<"b","a","r","a","t","a","n","g">>, "BT">> >>
        fuzzy     == ArrayFind({k \in DOMAIN Fuzzy : TextIncludes(nameLower, Fuzzy[k][1])})
    IN  IF islandName = <<>> THEN ""
        ELSE IF exact # 0 THEN rows[exact].id
        ELSE IF fuzzy # 0 THEN Fuzzy[fuzzy][2]
        ELSE ""

\* Variant A: visibleLocations.  The island of a location is the first island
\* row whose name occurs in loc.island; mood "all" stands for selectedMood "any".
visibleLocations(locs, rows, selected, mood) ==
    LET islandIdGuess(loc) ==
            LET islandObj == ArrayFind({i \in DOMAIN rows :
                                 loc.island # <<>> /\ TextIncludes(loc.island, rows[i].name)})
            IN  IF islandObj = 0 THEN "" ELSE rows[islandObj].id
        keep(loc) ==
            IF selected # <<>> /\ islandIdGuess(loc) # ""
                   /\ ~Includes(selected, islandIdGuess(loc))
            THEN FALSE
            ELSE IF mood = "all" THEN TRUE
            ELSE Includes(loc.moods, mood)
    IN  SelectSeq(locs, keep)

\* Mutant of passesCurated: adventure_heavy looks at the moods only.
passesCurated_MoodsOnly(loc, curatedId) ==
    CASE curatedId = "must_see"        -> loc.category \in {"beach", "island", "attraction", "park"}
      [] curatedId = "family_pack"     -> Includes(loc.moods, "family")
      [] curatedId = "adventure_heavy" -> Includes(loc.moods, "adventure")
      [] curatedId = "offbeat_gems"    -> Includes(loc.moods, "offbeat")
      [] OTHER                         -> TRUE

\* Variant B: passesCurated(loc, curatedId); a missing moods field reads as
\* the empty list and a missing category as "".
passesCurated(loc, curatedId) ==
    CASE curatedId = "all"             -> TRUE
      [] curatedId = "must_see"        -> loc.category \in {"beach", "island", "attraction", "park"}
      [] curatedId = "family_pack"     -> Includes(loc.moods, "family")
      [] curatedId = "adventure_heavy" ->
             Includes(loc.moods, "adventure") \/ loc.category \in {"trek", "dive_site"}
      [] curatedId = "offbeat_gems"    -> Includes(loc.moods, "offbeat")
      [] OTHER                         -> TRUE

\* Variant B: islandIdByName[loc.island] || null, the islandId that
\* useDerivedData attaches to each location; "" for null.  A later island row
\* of the same name replaces an earlier one; rows without a name are skipped.
locationIslandId(loc, rows) ==
    LET at == {i \in DOMAIN rows : rows[i].name # <<>> /\ rows[i].name = loc.island}
    IN  IF at = {} THEN "" ELSE rows[CHOOSE i \in at : \A j \in at : j <= i].id

\* Variant B: filteredLocations
filteredLocationsB(locs, rows, selected, search, mood, category, curated) ==
    LET text == toLowerCase(trim(search))
        keep(loc) ==
            LET islandId == locationIslandId(loc, rows)
                hay      == loc.location \o <<" ">> \o loc.brief \o <<" ">> \o loc.slug
            IN  /\ ~(selected # <<>> /\ islandId # "" /\ ~Includes(selected, islandId))
                /\ (mood # "all" => Includes(loc.moods, mood))
                /\ ~(category # "all" /\ loc.category # category)
                /\ passesCurated(loc, curated)
                /\ (text # <<>> => TextIncludes(toLowerCase(hay), text))
    IN  SelectSeq(locs, keep)

\* Mutant of compareLocations: no tie-break by name, a tie answers 1.
compareLocations_NoTieBreak(a, b, mode, rows) ==
    LET da == safeNum(a.typicalHours)
        db == safeNum(b.typicalHours)
        ia == islandOrderIndex(extractIslandIdFromName(a.island, rows))
        ib == islandOrderIndex(extractIslandIdFromName(b.island, rows))
    IN  IF mode = "name" THEN localeCompare(a.location, b.location)
        ELSE IF mode = "duration" THEN (IF da = db THEN 1 ELSE da - db)
        ELSE IF ia # ib THEN ia - ib
        ELSE 1

\* Variant C: the comparator handed to list.sort.  ISLAND_ORDER.indexOf never
\* answers null or undefined, so the `?? 999` of the code is never taken and
\* an unresolved island has index -1.
compareLocations(a, b, mode, rows) ==
    LET da == safeNum(a.typicalHours)
        db == safeNum(b.typicalHours)
        ia == islandOrderIndex(extractIslandIdFromName(a.island, rows))
        ib == islandOrderIndex(extractIslandIdFromName(b.island, rows))
        score(loc) ==
            LET name == toLowerCase(loc.location)
            IN  IF TextIncludes(name, <<"r","a","d","h","a","n","a","g","a","r">>) THEN -3
                ELSE IF TextIncludes(name, <<"c","e","l","l","u","l","a","r">>) THEN -3
                ELSE IF TextIncludes(name, <<"e","l","e","p","h","a","n","t"," ","b","e","a","c","h">>) THEN -2
                ELSE IF TextIncludes(name, <<"b","h","a","r","a","t","p","u","r">>) THEN -2
                ELSE 0
    IN  IF mode = "name" THEN localeCompare(a.location, b.location)
        ELSE IF mode = "duration"
        THEN (IF da = db THEN localeCompare(a.location, b.location) ELSE da - db)
        ELSE IF ia # ib THEN ia - ib
        ELSE IF score(a) # score(b) THEN score(a) - score(b)
        ELSE localeCompare(a.location, b.location)

\* Array.prototype.sort with the comparator of variant C: the orders in which
\* the call may leave the list.  With a consistent comparator the order is
\* the one sorted order that keeps ties in their former order (the sort is
\* stable); with an inconsistent comparator the order is implementation-defined.
sortLocations(list, mode, rows) ==
    LET n == Len(list)
        cmp(i, j) == compareLocations(list[i], list[j], mode, rows)
        sign(x) == IF x < 0 THEN -1 ELSE IF x > 0 THEN 1 ELSE 0
        consistent ==
            \A i, j, k \in 1..n :
                /\ cmp(i, i) = 0
                /\ sign(cmp(i, j)) = -sign(cmp(j, i))
                /\ (cmp(i, j) <= 0 /\ cmp(j, k) <= 0 => cmp(i, k) <= 0)
                /\ (cmp(i, j) = 0 /\ cmp(j, k) = 0 => cmp(i, k) = 0)
        Orders == {p \in [1..n -> 1..n] : \A i, j \in 1..n : i # j => p[i] # p[j]}
        sorted(p) ==
            \A i, j \in 1..n :
                i < j => cmp(p[i], p[j]) < 0 \/ (cmp(p[i], p[j]) = 0 /\ p[i] < p[j])
    IN  {[i \in 1..n |-> list[p[i]]] : p \in {q \in Orders : consistent => sorted(q)}}

\* Variant C: filteredLocations.  The outcomes of one evaluation: the list
\* returned, and the locations array as the evaluation leaves it.  The filters
\* and the sort work on list = locations.slice(), never on locations itself.
filteredLocationsC(locs, rows, selected, search, mood, category, mode) ==
    LET names == {rows[i].name : i \in {k \in DOMAIN rows : Includes(selected, rows[k].id)}}
        text  == toLowerCase(trim(search))
        keep(loc) ==
            /\ (selected # <<>> => loc.island \in names)
            /\ (text # <<>> => \/ TextIncludes(toLowerCase(loc.location), text)
                               \/ TextIncludes(toLowerCase(loc.brief), text))
            /\ (mood # "all" => Includes(loc.moods, mood))
            /\ (category # "all" => loc.category = category)
    IN  {[list |-> order, locations |-> locs] :
            order \in sortLocations(SelectSeq(locs, keep), mode, rows)}

-----------------------------------------------------------------------------
(* Browsing the locations (SpecBrowse) *)

MaxLocations == 2

\* islands.json: ids and names.
IslandTable ==
    << [id |-> "PB", name |-> <<"P","o","r","t"," ","B","l","a","i","r">>],
       [id |-> "HL", name |-> <<"H","a","v","e","l","o","c","k">>],
       [id |-> "NL", name |-> <<"N","e","i","l">>] >>

\* locations.json rows.  island is the free-text island name; a missing
\* island, brief or slug is the empty text, a missing moods field the empty
\* list, a missing category "".
LocationRows ==
    { [id |-> "L1", island |-> <<"H","a","v","e","l","o","c","k">>, location |-> <<"R","a","d","h","a","n","a","g","a","r"," ","B","e","a","c","h">>,
       brief |-> <<"S","u","n","s","e","t"," ","b","e","a","c","h">>, slug |-> <<"r","a","d","h","a","n","a","g","a","r">>,
       moods |-> <<"family", "nature">>, category |-> "beach", typicalHours |-> Num(3)],
      [id |-> "L2", island |-> <<"R","o","s","s"," ","I","s","l","a","n","d">>, location |-> <<"R","o","s","s"," ","R","u","i","n","s">>,
       brief |-> <<"O","l","d"," ","j","a","i","l">>, slug |-> <<>>,
       moods |-> <<"nature">>, category |-> "trek", typicalHours |-> NumStr(4)],
      [id |-> "L3", island |-> <<"H","a","v","e","l","o","c","k"," ","(","S","w","a","r","a","j"," ","D","w","e","e","p",")">>, location |-> <<"E","l","e","p","h","a","n","t"," ","B","e","a","c","h">>,
       brief |-> <<>>, slug |-> <<>>,
       moods |-> <<"adventure", "offbeat">>, category |-> "beach", typicalHours |-> Num(3)],
      [id |-> "L4", island |-> <<"H","a","v","e","l","o","c","k">>, location |-> <<"R","a","d","h","a","n","a","g","a","r"," ","B","e","a","c","h">>,
       brief |-> <<>>, slug |-> <<>>,
       moods |-> <<"offbeat">>, category |-> "dive_site", typicalHours |-> Num(3)] }

\* The data files are loaded; the filters are as constructed.
InitBrowse ==
    /\ islandRows = IslandTable
    /\ locations \in {t \in TablesOf(LocationRows, MaxLocations) :
                         \A i, j \in DOMAIN t : i # j => t[i].id # t[j].id}
    /\ searchText = <<>>
    /\ moodFilter = "all"
    /\ categoryFilter = "all"
    /\ curatedFilter = "must_see"
    /\ sortMode = "recommended"
    /\ NoHelperCall
    /\ InitialLocationSelection
    /\ LoadEnded
    /\ ferryRoutes = <<>>
    /\ cabs = <<>>
    /\ hotels = <<>>
    /\ adventures = <<>>
    /\ pricingConfig = DefaultPricingA
    /\ scooterPlans = <<>>
    /\ bicyclePlans = <<>>
    /\ InitialIslands
    /\ InitialTravellers
    /\ InitialHotelSelection
    /\ InitialAdventures
    /\ InitialTransportSelection
    /\ InitialOptions
    /\ cabLegs = <<>>
    /\ InitCabCalls

otherThanFilters ==
    <<cabVars, ferryVars, dataVars, hotelSelVars, selectedAdventureIds, transportSelVars,
      optionVars, helperVars, locSelVars, loadVars, islandRows, locations>>

\* setSearchText(e.target.value)
SetSearchText ==
    \E text \in {<<>>, <<" ","J","A","I","L"," ">>} :
        /\ searchText' = text
        /\ UNCHANGED <<otherThanFilters, moodFilter, categoryFilter, curatedFilter, sortMode>>

\* setMoodFilter(f.id); setSelectedMood(m.id) in variant A
SetMoodFilter ==
    \E mood \in {"all", "family"} :
        /\ moodFilter' = mood
        /\ UNCHANGED <<otherThanFilters, searchText, categoryFilter, curatedFilter, sortMode>>

\* setCategoryFilter(f.id)
SetCategoryFilter ==
    \E category \in {"all", "beach"} :
        /\ categoryFilter' = category
        /\ UNCHANGED <<otherThanFilters, searchText, moodFilter, curatedFilter, sortMode>>

\* setCuratedFilter(f.id), f one of CURATED_FILTERS
SetCuratedFilter ==
    \E curated \in {"all", "must_see", "family_pack", "adventure_heavy", "offbeat_gems"} :
        /\ curatedFilter' = curated
        /\ UNCHANGED <<otherThanFilters, searchText, moodFilter, categoryFilter, sortMode>>

\* setSortMode(e.target.value)
SetSortMode ==
    \E mode \in {"recommended", "name", "duration"} :
        /\ sortMode' = mode
        /\ UNCHANGED <<otherThanFilters, searchText, moodFilter, categoryFilter, curatedFilter>>

NextBrowse ==
    \/ ToggleIsland
    \/ SetSearchText
    \/ SetMoodFilter
    \/ SetCategoryFilter
    \/ SetCuratedFilter
    \/ SetSortMode

SpecBrowse == InitBrowse /\ [][NextBrowse]_vars

-----------------------------------------------------------------------------
(* Claims about the location filters *)

\* Only the island criterion can remove a location: no mood, category,
\* curated bundle or search text is set.
OnlyIslandCriterion ==
    /\ moodFilter = "all"
    /\ categoryFilter = "all"
    /\ curatedFilter = "all"
    /\ trim(searchText) = <<>>

ListsLocation(list, loc) == \E i \in DOMAIN list : list[i].id = loc.id

\* The island id that variant A finds for a location: the id of the first
\* island row whose name occurs in the location's island text.
IslandIdGuessOf(loc) ==
    LET at == {i \in DOMAIN islandRows :
                  loc.island # <<>> /\ TextIncludes(loc.island, islandRows[i].name)}
    IN  IF at = {} THEN "" ELSE islandRows[ArrayFind(at)].id

KnownAndUnselected(islandId) == islandId # "" /\ ~Includes(selectedIslands, islandId)

\* C12: when islands are selected, the location filter removes a location on
\* island grounds only if the location's island resolves to a known island id
\* that is not selected; a location whose island name resolves to no island
\* id is never removed by the island criterion.  Stated for the filters of
\* App.jsx, part_001 and part_002, each with its own island resolver.
C12_IslandCriterion ==
    OnlyIslandCriterion =>
        \A i \in DOMAIN locations :
            LET loc == locations[i]
            IN  /\ ~ListsLocation(visibleLocations(locations, islandRows, selectedIslands,
                                                   moodFilter), loc)
                       => KnownAndUnselected(IslandIdGuessOf(loc))
                /\ ~ListsLocation(filteredLocationsB(locations, islandRows, selectedIslands,
                                      searchText, moodFilter, categoryFilter, curatedFilter), loc)
                       => KnownAndUnselected(locationIslandId(loc, islandRows))
                /\ \A out \in filteredLocationsC(locations, islandRows, selectedIslands,
                                      searchText, moodFilter, categoryFilter, sortMode) :
                       ~ListsLocation(out.list, loc)
                           => KnownAndUnselected(extractIslandIdFromName(loc.island, islandRows))

\* The curated bundles of CURATED_FILTERS and their predicates as stated.
CuratedBundles == {"all", "must_see", "family_pack", "adventure_heavy", "offbeat_gems"}

HasMood(loc, mood) == \E i \in DOMAIN loc.moods : loc.moods[i] = mood

CuratedAsStated(loc, bundle) ==
    \/ bundle = "all"
    \/ bundle = "must_see" /\ loc.category \in {"beach", "island", "attraction", "park"}
    \/ bundle = "family_pack" /\ HasMood(loc, "family")
    \/ bundle = "adventure_heavy"
           /\ (HasMood(loc, "adventure") \/ loc.category \in {"trek", "dive_site"})
    \/ bundle = "offbeat_gems" /\ HasMood(loc, "offbeat")

\* The island, mood, category and search criteria of part_001 on one location.
OtherCriteriaB(loc) ==
    LET needle == toLowerCase(trim(searchText))
        hay    == toLowerCase(loc.location \o <<" ">> \o loc.brief \o <<" ">> \o loc.slug)
    IN  /\ ~(selectedIslands # <<>> /\ KnownAndUnselected(locationIslandId(loc, islandRows)))
        /\ (moodFilter = "all" \/ HasMood(loc, moodFilter))
        /\ (categoryFilter = "all" \/ loc.category = categoryFilter)
        /\ (needle = <<>> \/ TextIncludes(hay, needle))

IsFamilyNatureBeach(loc) == loc.moods = <<"family", "nature">> /\ loc.category = "beach"

\* C13: for every location and every curated bundle, passesCurated is true
\* exactly when the bundle's stated predicate holds (must_see: category beach,
\* island, attraction or park; family_pack: mood family; adventure_heavy: mood
\* adventure or category trek or dive_site; offbeat_gems: mood offbeat; all:
\* always).  A location with moods {family, nature} and category beach fails
\* adventure_heavy and passes family_pack, and the filtered list of part_001
\* holds exactly the locations that pass the curated predicate and the
\* island, mood, category and search criteria, in table order.
C13_CuratedFilter ==
    /\ \A i \in DOMAIN locations : \A bundle \in CuratedBundles :
           passesCurated(locations[i], bundle) = CuratedAsStated(locations[i], bundle)
    /\ \A i \in DOMAIN locations :
           IsFamilyNatureBeach(locations[i])
               => /\ ~passesCurated(locations[i], "adventure_heavy")
                  /\ passesCurated(locations[i], "family_pack")
    /\ filteredLocationsB(locations, islandRows, selectedIslands, searchText, moodFilter,
                          categoryFilter, curatedFilter)
           = SelectSeq(locations,
                       LAMBDA loc : CuratedAsStated(loc, curatedFilter) /\ OtherCriteriaB(loc))

\* The adventure_heavy bundle is chosen, the table holds the family beach and
\* another location, and the list shows the other location only.
C13_Witness ==
    /\ curatedFilter = "adventure_heavy"
    /\ \E i \in DOMAIN locations : IsFamilyNatureBeach(locations[i])
    /\ LET list == filteredLocationsB(locations, islandRows, selectedIslands, searchText,
                                      moodFilter, categoryFilter, curatedFilter)
       IN  /\ Len(list) = 1
           /\ ~IsFamilyNatureBeach(list[1])

\* The island, search, mood and category criteria of part_002 on one location.
SurvivesC(loc) ==
    LET needle == toLowerCase(trim(searchText))
    IN  /\ (selectedIslands = <<>>
               \/ \E i \in DOMAIN islandRows :
                      Includes(selectedIslands, islandRows[i].id) /\ islandRows[i].name = loc.island)
        /\ (needle = <<>>
               \/ TextIncludes(toLowerCase(loc.location), needle)
               \/ TextIncludes(toLowerCase(loc.brief), needle))
        /\ (moodFilter = "all" \/ HasMood(loc, moodFilter))
        /\ (categoryFilter = "all" \/ loc.category = categoryFilter)

\* list holds the surviving rows of the table, each exactly once.
HoldsSurvivorsOnce(list) ==
    LET survivors == {i \in DOMAIN locations : SurvivesC(locations[i])}
    IN  /\ Len(list) = Cardinality(survivors)
        /\ \A i \in survivors : \E k \in DOMAIN list : list[k] = locations[i]
        /\ \A k \in DOMAIN list : \E i \in survivors : list[k] = locations[i]

\* C14: filtering and then sorting the same location table with the same
\* criteria and sort mode gives one and the same ordered output whenever it
\* is done; the output holds each surviving location of the input exactly
\* once, and the input table is left as it was.
C14_StableOutput ==
    LET outs == filteredLocationsC(locations, islandRows, selectedIslands, searchText,
                                   moodFilter, categoryFilter, sortMode)
    IN  /\ Cardinality(outs) = 1
        /\ \A out \in outs :
               /\ HoldsSurvivorsOnce(out.list)
               /\ out.locations = locations

\* Two locations survive and the sort has exchanged them.
C14_Witness ==
    /\ Len(locations) = 2
    /\ \E out \in filteredLocationsC(locations, islandRows, selectedIslands, searchText,
                                     moodFilter, categoryFilter, sortMode) :
           /\ out.list = <<locations[2], locations[1]>>
           /\ out.locations = locations

-----------------------------------------------------------------------------
(* The per-person figure of variant B (SpecPerPerson) *)

\* part_001: safeNum(adults) ? totalTripCost / safeNum(adults) : totalTripCost
perPersonCost(totalTripCost, adultsField) ==
    IF safeNum(adultsField) # 0
    THEN RDivInt(totalTripCost, safeNum(adultsField))
    ELSE totalTripCost

\* part_001, the Adults field: setAdults(Number(e.target.value) || 1).  The
\* field is a number input, whose min and max attributes do not keep a typed
\* value out of the change event: "0", "3" and "-2" can all arrive.
TypeAdults ==
    \E typed \in {NumStr(0), NumStr(3), NumStr(-2)} :
        /\ adults' = (IF Truthy(ToNumber(typed)) THEN ToNumber(typed) ELSE Num(1))
        /\ UNCHANGED <<cabVars, ferryRoutes, selectedIslands, children, otherThanFerry>>

NextPerPerson ==
    \/ TypeAdults
    \/ ToggleIsland
    \/ SetHotelNights
    \/ ToggleAdventure
    \/ SetUseNightCabs

SpecPerPerson == InitTotals /\ [][NextPerPerson]_vars

\* C15: the per-person figure equals the total trip cost divided by
\* max(1, travelerCount) for every traveler count (0, negative and non-numeric
\* counts included), so it is never a division by zero and never negative
\* when the total is non-negative.  The traveler count of part_001 is the
\* adults field.
C15_PerPerson ==
    LET total     == TotalsB.grandTotal
        perPerson == perPersonCost(total, adults)
    IN  /\ perPerson = RDivInt(total, MathMax(1, safeNum(adults)))
        /\ (RNonNegative(total) => RNonNegative(perPerson))

-----------------------------------------------------------------------------
(* The daily cab hire of variant B (SpecCabHire) *)

MaxCabSelections == 2

\* cabs.json as loaded: one row of each kind, alone or followed by a second
\* row of Port Blair sedans.
HireRateTables ==
    LET second == [islandId |-> "PB", vehicleClass |-> "sedan",
                   dayFareINR |-> Num(1400), nightFareINR |-> Num(1700)]
    IN  {<<r>> : r \in CabRateRows} \cup {<<r, second>> : r \in CabRateRows}

\* The planner of part_001 after the data files are loaded.
InitCabHire ==
    /\ cabs \in HireRateTables
    /\ ferryRoutes = <<>>
    /\ hotels = <<>>
    /\ adventures = <<>>
    /\ pricingConfig = DefaultPricingA
    /\ scooterPlans = <<>>
    /\ bicyclePlans = <<>>
    /\ InitialIslands
    /\ InitialTravellers
    /\ InitialHotelSelection
    /\ InitialAdventures
    /\ InitialTransportSelection
    /\ InitialOptions
    /\ InitialBrowse
    /\ NoHelperCall
    /\ InitialLocationSelection
    /\ LoadEnded
    /\ cabLegs = <<>>
    /\ InitCabCalls

\* updateCabSelection(index, patch) from the three controls of a cab row: the
\* island select (options: the selected islands), the vehicle class select and
\* the days field, which sends Number(e.target.value) || 0.
UpdateCabSelection ==
    \E index \in DOMAIN cabSelections :
        /\ \/ \E id \in {"PB", "HL"} :
                  /\ Includes(selectedIslands, id)
                  /\ cabSelections' = [cabSelections EXCEPT ![index].islandId = id]
           \/ \E vc \in {"sedan", "suv"} :
                  cabSelections' = [cabSelections EXCEPT ![index].vehicleClass = vc]
           \/ \E typed \in {NumStr(0), NumStr(3)} :
                  cabSelections' =
                      [cabSelections EXCEPT ![index].days =
                          IF Truthy(ToNumber(typed)) THEN ToNumber(typed) ELSE Num(0)]
        /\ UNCHANGED <<cabVars, browseVars, helperVars, locSelVars, loadVars, ferryVars, dataVars, hotelSelVars,
                       selectedAdventureIds, useNightCabs, selectedCabLegs,
                       selectedFerryRouteIds, optionVars>>

\* addCabSelectionRow
AddCabSelectionRow ==
    /\ Len(cabSelections) < MaxCabSelections
    /\ cabSelections' = Append(cabSelections,
                            [islandId |-> "PB", vehicleClass |-> "sedan", days |-> Num(1)])
    /\ UNCHANGED <<cabVars, browseVars, helperVars, locSelVars, loadVars, ferryVars, dataVars, hotelSelVars,
                   selectedAdventureIds, useNightCabs, selectedCabLegs,
                   selectedFerryRouteIds, optionVars>>

\* removeCabSelectionRow(index)
RemoveCabSelectionRow ==
    \E index \in DOMAIN cabSelections :
        /\ cabSelections' = [i \in 1..(Len(cabSelections) - 1) |->
                                IF i < index THEN cabSelections[i] ELSE cabSelections[i + 1]]
        /\ UNCHANGED <<cabVars, browseVars, helperVars, locSelVars, loadVars, ferryVars, dataVars, hotelSelVars,
                       selectedAdventureIds, useNightCabs, selectedCabLegs,
                       selectedFerryRouteIds, optionVars>>

NextCabHire ==
    \/ UpdateCabSelection
    \/ AddCabSelectionRow
    \/ RemoveCabSelectionRow
    \/ SetUseNightCabs

SpecCabHire == InitCabHire /\ [][NextCabHire]_vars

CabHireLines == cabBreakdown(cabSelections, cabs, useNightCabs)

RateAvailable(rate) == RLess(RZero, rate)

\* The base daily rate of a cab row as the claim states it, from the entry of
\* the row's island and vehicle class in the rate table.
StatedBaseDaily(row) ==
    LET rates == cabDailyRates(cabs)
        key   == <<row.islandId, row.vehicleClass>>
    IN  IF key \notin DOMAIN rates THEN RZero
        ELSE IF useNightCabs
             THEN (IF RateAvailable(rates[key].night) THEN rates[key].night
                   ELSE rates[key].day)
             ELSE (IF RateAvailable(rates[key].day) THEN rates[key].day
                   ELSE rates[key].night)

HasRateEntry(row) == <<row.islandId, row.vehicleClass>> \in DOMAIN cabDailyRates(cabs)

\* C19: every cab row's base daily rate is the night rate of its (island,
\* vehicle class) entry when night rates are requested and that rate is
\* available, else the day rate, and the day rate when day rates are requested
\* and it is available, else the night rate; the row's amount before markup is
\* that rate times the row's days, and a row without an entry in the rate
\* table contributes 0.
C19_DailyHire ==
    /\ Len(CabHireLines) = Len(cabSelections)
    /\ \A i \in DOMAIN cabSelections :
           LET row  == cabSelections[i]
               line == CabHireLines[i]
           IN  /\ line.daily = StatedBaseDaily(row)
               /\ line.days = row.days.v
               /\ line.total = RMul(RMul(StatedBaseDaily(row), RInt(row.days.v)),
                                    OnePlus(MARKUP.cab))
               /\ ~HasRateEntry(row) => line.total = RZero

\* C19 witness: night rates are requested; one row, set to 3 days, has an entry
\* whose night rate is unavailable and is charged at the day rate, and another
\* row has no entry and contributes 0.
C19_Witness ==
    /\ useNightCabs
    /\ \E i \in DOMAIN cabSelections :
           LET row == cabSelections[i]
           IN  /\ HasRateEntry(row)
               /\ row.days = Num(3)
               /\ ~RateAvailable(cabDailyRates(cabs)[<<row.islandId, row.vehicleClass>>].night)
               /\ RateAvailable(CabHireLines[i].daily)
               /\ RateAvailable(CabHireLines[i].total)
    /\ \E j \in DOMAIN cabSelections :
           /\ ~HasRateEntry(cabSelections[j])
           /\ cabSelections[j].days # Num(0)
           /\ CabHireLines[j].total = RZero

\* The cab lines of variant B with the markup applied once to each.
MarkedUpOncePerLineB ==
    /\ \A i \in DOMAIN CabHireLines :
           CabHireLines[i].total =
               RMul(RMul(CabHireLines[i].daily, RInt(CabHireLines[i].days)),
                    OnePlus(MARKUP.cab))
    /\ cabCost(cabSelections, cabs, useNightCabs) =
           RSumSeq([i \in DOMAIN CabHireLines |-> CabHireLines[i].total])

\* The base amount of a selected cab leg of variant A: the resolved fare of the
\* leg for the chosen time of day times the count, 0 for a leg that is not in
\* the table.
CabLineBaseA(sel) ==
    LET leg == ArrayFind({i \in DOMAIN cabLegs : cabLegs[i].id = sel.legId})
    IN  IF leg = 0 THEN 0
        ELSE safeNum(estimateCabLeg(cabLegs[leg], pricingConfig,
                         [timeOfDay  |-> IF sel.timeOfDay = "" THEN "day" ELSE sel.timeOfDay,
                          travellers |-> travellerCount(adults, children)]).perVehicle)
                 * OrNum(sel.count, 1)

MarkedUpOncePerLineA ==
    RInt(cabTotalA(selectedCabLegs, cabLegs, pricingConfig, travellerCount(adults, children)))
        = RSumSeq([i \in DOMAIN selectedCabLegs |->
                      RMul(RInt(CabLineBaseA(selectedCabLegs[i])), OnePlus(MARKUP.cab))])

\* C20: the cab markup is applied once to each cab line and never to the
\* aggregate: in part_001 every breakdown line's total is its base amount
\* (daily rate times days) times (1 + cab markup) and cabCost is the sum of
\* the line totals; in App.jsx cabTotal is the sum, over the selected legs, of
\* the leg's base amount (resolved fare times count) times (1 + cab markup).
C20_MarkupOncePerLine ==
    /\ MarkedUpOncePerLineB
    /\ MarkedUpOncePerLineA

-----------------------------------------------------------------------------
(* Claims about the recommended order of variant C (SpecBrowse) *)

RecommendedLists ==
    {out.list : out \in filteredLocationsC(locations, islandRows, selectedIslands,
                                           searchText, moodFilter, categoryFilter,
                                           "recommended")}

\* The position of a location's island in the canonical ordering, -1 for an
\* island outside it and for an island name that resolves to no id.
IslandRank(loc) == islandOrderIndex(extractIslandIdFromName(loc.island, islandRows))

HeroRank(loc) ==
    LET name == toLowerCase(loc.location)
    IN  IF \/ TextIncludes(name, <<"r","a","d","h","a","n","a","g","a","r">>)
           \/ TextIncludes(name, <<"c","e","l","l","u","l","a","r">>) THEN 1
        ELSE IF \/ TextIncludes(name, <<"e","l","e","p","h","a","n","t"," ","b","e","a","c","h">>)
                \/ TextIncludes(name, <<"b","h","a","r","a","t","p","u","r">>) THEN 2
        ELSE 3

UnrankedIslandsLast(list) ==
    \A i, j \in DOMAIN list :
        (IslandRank(list[i]) < 0 /\ IslandRank(list[j]) >= 0) => j < i

HeroesFirstThenName(list) ==
    \A i, j \in DOMAIN list :
        (i < j /\ IslandRank(list[i]) = IslandRank(list[j])) =>
            /\ HeroRank(list[i]) <= HeroRank(list[j])
            /\ (HeroRank(list[i]) = HeroRank(list[j])
                   => localeCompare(list[i].location, list[j].location) <= 0)

\* C21: in the recommended sort mode a location whose island is outside the
\* canonical island ordering, or resolves to no island id, comes after every
\* location whose island is in the ordering; among locations of one island the
\* hero locations come first and the remaining ties are in name order.
C21_RecommendedOrder ==
    sortMode = "recommended" =>
        \A list \in RecommendedLists :
            /\ UnrankedIslandsLast(list)
            /\ HeroesFirstThenName(list)

-----------------------------------------------------------------------------
(* Claims about resolving island names (SpecBrowse) *)

\* The aliases of the islands, lower-cased, in the order they are tried.
IslandAliases ==
    << <<<<"p","o","r","t"," ","b","l","a","i","r">>, "PB">>,
       <<<<"h","a","v","e","l","o","c","k">>, "HL">>,
       <<<<"s","w","a","r","a","j">>, "HL">>,
       <<<<"n","e","i","l">>, "NL">>,
       <<<<"s","h","a","h","e","e","d">>, "NL">>,
       <<<<"l","o","n","g"," ","i","s","l","a","n","d">>, "LI">>,
       <<<<"l","i","t","t","l","e"," ","a","n","d","a","m","a","n">>, "LA">>,
       <<<<"m","a","y","a","b","u","n","d","e","r">>, "MB">>,
       <<<<"r","a","n","g","a","t">>, "RG">>,
       <<<<"d","i","g","l","i","p","u","r">>, "DG">>,
       <<<<"b","a","r","a","t","a","n","g">>, "BT">> >>

\* What the claim allows as the result of resolving text against rows: the id
\* of an island of exactly that name when there is one, otherwise the id of an
\* alias found in the text whatever its letter case, otherwise null ("").
AllowedResolutions(text, rows) ==
    LET exact == {rows[i].id : i \in {k \in DOMAIN rows : rows[k].name = text}}
        alias == {IslandAliases[k][2] :
                     k \in {a \in DOMAIN IslandAliases :
                               TextIncludes(toLowerCase(text), IslandAliases[a][1])}}
    IN  IF exact # {} THEN exact
        ELSE IF alias # {} THEN alias
        ELSE {""}

\* C22: the island id attached to a location, by extractIslandIdFromName of
\* part_002 and by locationWithIslandId of part_001, is the id of the island
\* whose name equals the location's island text exactly when there is one,
\* otherwise the id of a matching alias, otherwise null.
C22_IslandNameResolution ==
    \A i \in DOMAIN locations :
        /\ extractIslandIdFromName(locations[i].island, islandRows)
               \in AllowedResolutions(locations[i].island, islandRows)
        /\ locationIslandId(locations[i], islandRows)
               \in AllowedResolutions(locations[i].island, islandRows)

-----------------------------------------------------------------------------
(* The location-to-activity index (SpecJoinIndex) *)

MaxJoinRows == 3

\* A row of the join table as JSON can hold it: an object with a locationId
\* ("" when missing) and an id field that is a list or something else, or null.
JoinRow(locationId, isArray, ids) ==
    [isNull |-> FALSE, locationId |-> locationId, isArray |-> isArray, ids |-> ids]

JoinRows ==
    { JoinRow("L1", TRUE, <<"A1">>),
      JoinRow("L2", TRUE, <<"A2", "A3">>),
      JoinRow("L1", TRUE, <<"A4">>),
      JoinRow("", TRUE, <<"A5">>),
      JoinRow("L3", FALSE, <<>>),
      [isNull |-> TRUE, locationId |-> "", isArray |-> FALSE, ids |-> <<>>] }

\* The parsed file: an array of rows, or null.
JoinTables ==
    {[isNull |-> FALSE, rows |-> t] : t \in TablesOf(JoinRows, MaxJoinRows)}
        \cup {[isNull |-> TRUE, rows |-> <<>>]}

\* The loop over the rows, shared by the two files:
\*   if (!row.locationId || !Array.isArray(row.<ids>)) skip
\*   map[row.locationId] = row.<ids>
\* Reading a property of a null row throws, which ends the computation.
RECURSIVE indexRows(_)
indexRows(rows) ==
    IF rows = <<>> THEN [threw |-> FALSE, map |-> <<>>]
    ELSE LET before == indexRows(SubSeq(rows, 1, Len(rows) - 1))
             row    == rows[Len(rows)]
         IN  IF before.threw THEN before
             ELSE IF row.isNull THEN [threw |-> TRUE, map |-> <<>>]
             ELSE IF row.locationId = "" \/ ~row.isArray THEN before
             ELSE [threw |-> FALSE,
                   map   |-> [k \in DOMAIN before.map \cup {row.locationId} |->
                                 IF k = row.locationId THEN row.ids ELSE before.map[k]]]

\* part_001: for (const row of locAdventureMap || []), field adventureIds
locToAdvIds(table) == indexRows(IF table.isNull THEN <<>> ELSE table.rows)

\* part_002: locationActivitiesMap.forEach(...), field activities; forEach of
\* null throws.
locToActivityIds(table) ==
    IF table.isNull THEN [threw |-> TRUE, map |-> <<>>] ELSE indexRows(table.rows)

\* The join table arrives and both files build their index from it.
BuildLocationIndex ==
    \E table \in JoinTables :
        /\ callArg' = table
        /\ callOut' = <<locToAdvIds(table), locToActivityIds(table)>>
        /\ UNCHANGED <<cabVars, ferryVars, dataVars, hotelSelVars, selectedAdventureIds,
                       transportSelVars, optionVars, browseVars, locSelVars, loadVars>>

SpecJoinIndex == InitSafeNum /\ [][BuildLocationIndex]_vars

WellFormedRow(row) == ~row.isNull /\ row.locationId # "" /\ row.isArray

\* The index holds exactly the location ids of the well-formed rows, each
\* mapped to the id list of a well-formed row of that location id.
IndexesWellFormedRows(index, rows) ==
    LET good == {i \in DOMAIN rows : WellFormedRow(rows[i])}
    IN  /\ DOMAIN index = {rows[i].locationId : i \in good}
        /\ \A k \in DOMAIN index : \E i \in good :
               rows[i].locationId = k /\ index[k] = rows[i].ids

\* C23: building the location-to-activity index never fails, whatever the
\* join table holds; rows with no locationId or with an id field that is not a
\* list add no key, every well-formed row's location id is a key mapped to the
\* id list of such a row, and rows after a bad row are indexed all the same.
C23_IndexNeverFails ==
    callOut # <<>> =>
        \A v \in 1..2 :
            /\ ~callOut[v].threw
            /\ IndexesWellFormedRows(callOut[v].map, callArg.rows)

-----------------------------------------------------------------------------
(* Adjusting the cab legs and hotels of variant A (SpecAdjust) *)

MaxCabLegCount == 3

\* Mutant: the count is not kept at 1 or more.
updateCabLegCount_NoFloor(prev, index, delta) ==
    [i \in DOMAIN prev |->
        IF i # index THEN prev[i]
        ELSE [prev[i] EXCEPT !.count = OrNum(prev[i].count, 1) + delta]]

\* updateCabLegCount(index, delta) as a function of prev; positions count from 1
updateCabLegCount(prev, index, delta) ==
    [i \in DOMAIN prev |->
        IF i # index THEN prev[i]
        ELSE [prev[i] EXCEPT !.count = MathMax(1, OrNum(prev[i].count, 1) + delta)]]

\* updateCabLegTimeOfDay(index, timeOfDay) as a function of prev
updateCabLegTimeOfDay(prev, index, timeOfDay) ==
    [i \in DOMAIN prev |->
        IF i = index THEN [prev[i] EXCEPT !.timeOfDay = timeOfDay] ELSE prev[i]]

\* removeCabLeg(index) as a function of prev
removeCabLeg(prev, index) ==
    LET keep == {i \in DOMAIN prev : i # index}
    IN  [k \in 1..Cardinality(keep) |->
            prev[CHOOSE i \in keep : Cardinality({j \in keep : j < i}) = k - 1]]

\* The positions a handler can be called with: those of the list and one on
\* either side of it.
CabLegPositions == 0..(MaxSelectedCabLegs + 1)

UpdateCabLegCount ==
    \E index \in CabLegPositions, delta \in StepDeltas :
        /\ selectedCabLegs' = updateCabLegCount(selectedCabLegs, index, delta)
        /\ \A i \in DOMAIN selectedCabLegs' : selectedCabLegs'[i].count <= MaxCabLegCount
        /\ UNCHANGED <<cabVars, browseVars, helperVars, locSelVars, loadVars, ferryVars, dataVars, hotelSelVars,
                       selectedAdventureIds, cabSelections, useNightCabs,
                       selectedFerryRouteIds, optionVars>>

UpdateCabLegTimeOfDay ==
    \E index \in CabLegPositions, timeOfDay \in {"day", "night"} :
        /\ selectedCabLegs' = updateCabLegTimeOfDay(selectedCabLegs, index, timeOfDay)
        /\ UNCHANGED <<cabVars, browseVars, helperVars, locSelVars, loadVars, ferryVars, dataVars, hotelSelVars,
                       selectedAdventureIds, cabSelections, useNightCabs,
                       selectedFerryRouteIds, optionVars>>

NextAdjust ==
    \/ AddCabLeg
    \/ RemoveCabLeg
    \/ UpdateCabLegCount
    \/ UpdateCabLegTimeOfDay
    \/ HandleSelectHotel
    \/ UpdateHotelNights
    \/ UpdateHotelRooms

SpecAdjust == InitTotals /\ [][NextAdjust]_vars

HasHotelFor(islandId) ==
    \E i \in DOMAIN selectedHotelsByIsland : selectedHotelsByIsland[i].islandId = islandId

\* C24: every selected cab leg has count >= 1 and every selected hotel has
\* nights >= 1 and rooms >= 1, whatever handlers were called with whatever
\* deltas; and an update addressed to a position with no cab leg, or to an
\* island with no hotel selection, gives back the state it was handed.
C24_CountsStayPositive ==
    /\ \A i \in DOMAIN selectedCabLegs : selectedCabLegs[i].count >= 1
    /\ \A i \in DOMAIN selectedHotelsByIsland :
           /\ selectedHotelsByIsland[i].nights >= 1
           /\ selectedHotelsByIsland[i].rooms >= 1
    /\ \A index \in CabLegPositions \ DOMAIN selectedCabLegs :
           /\ \A delta \in StepDeltas :
                  updateCabLegCount(selectedCabLegs, index, delta) = selectedCabLegs
           /\ \A timeOfDay \in {"day", "night"} :
                  updateCabLegTimeOfDay(selectedCabLegs, index, timeOfDay) = selectedCabLegs
           /\ removeCabLeg(selectedCabLegs, index) = selectedCabLegs
    /\ \A islandId \in Islands, delta \in StepDeltas :
           ~HasHotelFor(islandId) =>
               /\ updateHotelNights(selectedHotelsByIsland, islandId, delta)
                      = selectedHotelsByIsland
               /\ updateHotelRooms(selectedHotelsByIsland, islandId, delta)
                      = selectedHotelsByIsland

\* C24 witness: a night cab leg whose count was stepped up and a hotel whose
\* nights and rooms were stepped up are selected, with an island left without
\* a hotel.
C24_Witness ==
    /\ \E i \in DOMAIN selectedCabLegs :
           selectedCabLegs[i].count = MaxCabLegCount /\ selectedCabLegs[i].timeOfDay = "night"
    /\ \E i \in DOMAIN selectedHotelsByIsland :
           /\ selectedHotelsByIsland[i].nights = MaxNights
           /\ selectedHotelsByIsland[i].rooms = MaxRooms
    /\ \E islandId \in Islands : ~HasHotelFor(islandId)


-----------------------------------------------------------------------------
(* The selection lists of variant A (SpecSelect) *)

LocationIds == {"L1", "L2"}

\* The ids a ferry route row can carry.
RouteIds == {r.id : r \in FerryRows}

\* prev.includes(id) ? prev.filter(x => x !== id) : [...prev, id]
toggleLocation(prev, id) ==
    IF Includes(prev, id) THEN SelectSeq(prev, LAMBDA x : x # id) ELSE Append(prev, id)

toggleFerryRoute_AlwaysAppend(prev, routeId) == Append(prev, routeId)

\* prev.includes(routeId) ? prev.filter(id => id !== routeId) : [...prev, routeId]
toggleFerryRoute(prev, routeId) ==
    IF Includes(prev, routeId) THEN SelectSeq(prev, LAMBDA id : id # routeId)
    ELSE Append(prev, routeId)

ToggleLocation ==
    \E id \in LocationIds :
        /\ selectedLocationIds' = toggleLocation(selectedLocationIds, id)
        /\ UNCHANGED <<cabVars, ferryVars, dataVars, hotelSelVars, selectedAdventureIds,
                       transportSelVars, optionVars, browseVars, helperVars, loadVars,
                       renderedLocationIds, locationActivitiesMap>>

ToggleFerryRoute ==
    \E routeId \in RouteIds :
        /\ selectedFerryRouteIds' = toggleFerryRoute(selectedFerryRouteIds, routeId)
        /\ Len(selectedFerryRouteIds') <= Cardinality(RouteIds) + 1
        /\ UNCHANGED <<cabVars, browseVars, helperVars, locSelVars, loadVars, ferryVars, dataVars,
                       hotelSelVars, selectedAdventureIds, cabSelections, useNightCabs,
                       selectedCabLegs, optionVars>>

NextSelect ==
    \/ ToggleIsland
    \/ ToggleLocation
    \/ ToggleFerryRoute
    \/ HandleUseSuggestedFerries

SpecSelect == InitTotals /\ [][NextSelect]_vars

NoIdTwice(list) == \A i, j \in DOMAIN list : i # j => list[i] # list[j]

IdsOf(list) == {list[i] : i \in DOMAIN list}

\* C25: whatever sequence of toggleIsland, toggleLocation, toggleFerryRoute
\* and handleUseSuggestedFerries calls was made, none of selectedIslands,
\* selectedLocationIds and selectedFerryRouteIds holds an id twice, and
\* toggling any id twice in a row gives back the same set of selected ids.
C25_SelectionsAreSets ==
    /\ NoIdTwice(selectedIslands)
    /\ NoIdTwice(selectedLocationIds)
    /\ NoIdTwice(selectedFerryRouteIds)
    /\ \A id \in Islands :
           LET once == IF Includes(selectedIslands, id)
                       THEN SelectSeq(selectedIslands, LAMBDA x : x # id)
                       ELSE Append(selectedIslands, id)
               twice == IF Includes(once, id)
                        THEN SelectSeq(once, LAMBDA x : x # id)
                        ELSE Append(once, id)
           IN  IdsOf(twice) = IdsOf(selectedIslands)
    /\ \A id \in LocationIds :
           IdsOf(toggleLocation(toggleLocation(selectedLocationIds, id), id))
               = IdsOf(selectedLocationIds)
    /\ \A routeId \in RouteIds :
           IdsOf(toggleFerryRoute(toggleFerryRoute(selectedFerryRouteIds, routeId), routeId))
               = IdsOf(selectedFerryRouteIds)

\* C25 witness: the suggested routes were taken over and one more route was
\* toggled in, an island was toggled out and in again so that it moved to the
\* end of the list, and two locations are selected.
C25_Witness ==
    /\ selectedIslands = <<"HL", "NL", "PB">>
    /\ Len(selectedLocationIds) = 2
    /\ Len(selectedFerryRouteIds) = 3
    /\ selectedFerryRouteIds[1] = <<"NL", "HL">>


-----------------------------------------------------------------------------
(* Auto-suggested activities of variant C (SpecSuggest) *)

\* location_activities.json as it can arrive: a location with one activity
\* and a location sharing it, and a row that names one activity twice.
LinkTables ==
    { << JoinRow("L1", TRUE, <<"A1">>), JoinRow("L2", TRUE, <<"A2", "A1">>) >>,
      << JoinRow("L1", TRUE, <<"A1", "A1">>) >> }

ActivityIds == {"A1", "A2"}

\* locToActivityIds[locId] || []
LinkedActivities(locId) ==
    LET index == locToActivityIds([isNull |-> FALSE, rows |-> locationActivitiesMap]).map
    IN  IF locId \in DOMAIN index THEN index[locId] ELSE <<>>

\* const next = new Set(prev); acts.forEach(id => next.add(id)); Array.from(next)
RECURSIVE addAll(_, _)
addAll(prev, acts) ==
    IF acts = <<>> THEN prev
    ELSE addAll(IF Includes(prev, acts[1]) THEN prev ELSE Append(prev, acts[1]), Tail(acts))

\* setLocationActivitiesMap(await locActsRes.json()) of the load effect
LoadLocationActivities ==
    /\ locationActivitiesMap = <<>>
    /\ locationActivitiesMap' \in LinkTables
    /\ UNCHANGED <<cabVars, ferryVars, dataVars, hotelSelVars, selectedAdventureIds,
                   transportSelVars, optionVars, browseVars, helperVars, loadVars,
                   selectedLocationIds, renderedLocationIds>>

\* The component renders again: the handlers created by this render close
\* over the selectedLocationIds of this render.
Render ==
    /\ renderedLocationIds # selectedLocationIds
    /\ renderedLocationIds' = selectedLocationIds
    /\ UNCHANGED <<cabVars, ferryVars, dataVars, hotelSelVars, selectedAdventureIds,
                   transportSelVars, optionVars, browseVars, helperVars, loadVars,
                   selectedLocationIds, locationActivitiesMap>>

\* part_002 toggleLocation(locId): the selection is toggled by an updater on
\* the current state; the test for auto-suggesting reads selectedLocationIds
\* of the render that created the handler.  The planner is on screen only once
\* the data is loaded (if (loading) return ...).
ToggleLocationC ==
    \E locId \in LocationIds :
        LET acts == LinkedActivities(locId)
        IN  /\ locationActivitiesMap # <<>>
            /\ selectedLocationIds' = toggleLocation(selectedLocationIds, locId)
            /\ selectedAdventureIds' =
                   IF ~Includes(renderedLocationIds, locId) /\ Len(acts) > 0
                   THEN addAll(selectedAdventureIds, acts)
                   ELSE selectedAdventureIds
            /\ UNCHANGED <<cabVars, ferryVars, dataVars, hotelSelVars, transportSelVars,
                           optionVars, browseVars, helperVars, loadVars,
                           renderedLocationIds, locationActivitiesMap>>

\* part_002 toggleActivity(activityId)
ToggleActivity ==
    \E activityId \in ActivityIds :
        /\ locationActivitiesMap # <<>>
        /\ selectedAdventureIds' =
               IF Includes(selectedAdventureIds, activityId)
               THEN SelectSeq(selectedAdventureIds, LAMBDA x : x # activityId)
               ELSE Append(selectedAdventureIds, activityId)
        /\ UNCHANGED <<cabVars, browseVars, helperVars, locSelVars, loadVars, ferryVars, dataVars,
                       hotelSelVars, transportSelVars, optionVars>>

NextSuggest == LoadLocationActivities \/ Render \/ ToggleLocationC \/ ToggleActivity

SpecSuggest == InitTotals /\ [][NextSuggest]_vars

BecomesSelected(locId) ==
    ~Includes(selectedLocationIds, locId) /\ Includes(selectedLocationIds', locId)

BecomesUnselected(locId) ==
    Includes(selectedLocationIds, locId) /\ ~Includes(selectedLocationIds', locId)

\* C26: a toggleLocation call that selects a location leaves every activity
\* linked to it among the selected activities, none listed twice, and a
\* toggleLocation call that unselects a location adds no activity, however
\* many toggles are issued between two renders.
C26_AutoSuggest ==
    [][\A locId \in LocationIds :
           /\ BecomesSelected(locId) =>
                  /\ IdsOf(LinkedActivities(locId)) \subseteq IdsOf(selectedAdventureIds')
                  /\ NoIdTwice(selectedAdventureIds')
           /\ BecomesUnselected(locId) =>
                  IdsOf(selectedAdventureIds') \subseteq IdsOf(selectedAdventureIds)]_vars


-----------------------------------------------------------------------------
(* Deselecting an island in variant A (SpecDeselect) *)

NextDeselect ==
    \/ ToggleIsland
    \/ HandleSelectHotel
    \/ AddCabLeg
    \/ HandleUseSuggestedFerries

SpecDeselect == InitTotals /\ [][NextDeselect]_vars

IslandDeselected ==
    \E id \in Islands : Includes(selectedIslands, id) /\ ~Includes(selectedIslands', id)

\* C27: a step that deselects an island leaves the hotel selection, the
\* selected cab legs and the selected ferry route ids as they were, and with
\* them the hotel, cab and ferry totals.
C27_DeselectKeepsSelections ==
    [][IslandDeselected =>
           /\ selectedHotelsByIsland' = selectedHotelsByIsland
           /\ selectedCabLegs' = selectedCabLegs
           /\ selectedFerryRouteIds' = selectedFerryRouteIds
           /\ hotelTotalA(selectedHotelsByIsland', hotels')
                  = hotelTotalA(selectedHotelsByIsland, hotels)
           /\ cabTotalA(selectedCabLegs', cabLegs', pricingConfig',
                        travellerCount(adults', children'))
                  = cabTotalA(selectedCabLegs, cabLegs, pricingConfig,
                              travellerCount(adults, children))
           /\ ferryTotalA(selectedFerryRouteIds', ferryRoutes',
                          travellerCount(adults', children'))
                  = ferryTotalA(selectedFerryRouteIds, ferryRoutes,
                                travellerCount(adults, children))]_vars

\* C27 witness: Port Blair is no longer selected while its hotel, a cab leg
\* and the ferry route out of it are, each with a positive total.
C27_Witness ==
    /\ ~Includes(selectedIslands, "PB")
    /\ \E i \in DOMAIN selectedHotelsByIsland :
           selectedHotelsByIsland[i].islandId = "PB" /\ selectedHotelsByIsland[i].hotelId # ""
    /\ selectedCabLegs # <<>>
    /\ Includes(selectedFerryRouteIds, <<"PB", "HL">>)
    /\ RLess(RZero, TotalsA.hotelTotal)
    /\ RLess(RZero, TotalsA.cabTotal)
    /\ RLess(RZero, TotalsA.ferryTotal)


-----------------------------------------------------------------------------
(* The hotel nights of variant B (SpecHotelNights) *)

SpecHotelNights == InitHotel /\ [][SetHotelNights]_vars

OtherEntries(entries, hotel) == SelectSeq(entries, LAMBDA e : e.hotelId # hotel.id)

\* C28: every entry of hotelSelections has nights > 0; setHotelNights with 0,
\* a negative number or no value leaves no entry for that hotel; and
\* setHotelNights for one hotel leaves the entries of the other hotels as
\* they were.
C28_NightsStayPositive ==
    /\ \A i \in DOMAIN hotelSelections : GreaterThanZero(hotelSelections[i].nights)
    /\ \A h \in DOMAIN hotels, nightsForHotel \in NightInputs :
           LET next == setHotelNights(hotelSelections, hotels[h], nightsForHotel)
           IN  /\ ~GreaterThanZero(nightsForHotel) =>
                      \A i \in DOMAIN next : next[i].hotelId # hotels[h].id
               /\ OtherEntries(next, hotels[h]) = OtherEntries(hotelSelections, hotels[h])

\* C28 witness: both hotels are selected with different nights, the first
\* hotel of the table after it was removed and entered again.
C28_Witness ==
    /\ Len(hotelSelections) = 2
    /\ hotelSelections[1].hotelId = "h2"
    /\ hotelSelections[1].nights = Num(MaxNights)
    /\ hotelSelections[2].hotelId = "h1"
    /\ hotelSelections[2].nights = Num(1)


-----------------------------------------------------------------------------
(* The load effect of the three files (SpecLoad) *)

\* How a fetch can settle: a response that is ok and parses, a response that
\* is not ok, a rejected fetch, and an ok response whose body is not JSON.
Outcomes == {"ok", "notok", "rejected", "badjson"}

otherThanLoad ==
    <<cabVars, ferryVars, dataVars, hotelSelVars, selectedAdventureIds, transportSelVars,
      optionVars, browseVars, helperVars, locSelVars>>

IsRequired(d) == \E i \in DOMAIN RequiredDatasets : RequiredDatasets[i] = d

\* fetchJson(path) of App.jsx and the async mapper of part_001 reject for a
\* failed fetch, a response that is not ok and a body that does not parse.
Failed(d) == fetched[d] \in {"notok", "rejected", "badjson"}

AllSettled == \A d \in Datasets : fetched[d] # "pending"

\* The component has mounted and loadAll() awaits its fetches.
InitLoad ==
    /\ loadVariant \in {"A", "B", "C"}
    /\ fetched = [d \in Datasets |-> "pending"]
    /\ loadPc = "await"
    /\ installed = {}
    /\ loading = TRUE
    /\ loadError = ""
    /\ unmounted = FALSE
    /\ ferryRoutes = <<>>
    /\ cabs = <<>>
    /\ hotels = <<>>
    /\ adventures = <<>>
    /\ pricingConfig = DefaultPricingA
    /\ scooterPlans = <<>>
    /\ bicyclePlans = <<>>
    /\ InitialTravellers
    /\ InitialIslands
    /\ InitialHotelSelection
    /\ InitialAdventures
    /\ InitialTransportSelection
    /\ InitialOptions
    /\ InitialBrowse
    /\ NoHelperCall
    /\ InitialLocationSelection
    /\ cabLegs = <<>>
    /\ InitCabCalls

\* One of the fetches settles.
FetchSettles ==
    \E d \in Datasets, outcome \in Outcomes :
        /\ fetched[d] = "pending"
        /\ fetched' = [fetched EXCEPT ![d] = outcome]
        /\ UNCHANGED <<otherThanLoad, loadVariant, loadPc, installed, loading, loadError,
                       unmounted>>

\* The component is unmounted while loadAll() awaits its fetches; the cleanup
\* of App.jsx and of part_001 sets cancelled, part_002 returns no cleanup.
Unmount ==
    /\ ~unmounted
    /\ loadPc = "await"
    /\ unmounted' = TRUE
    /\ UNCHANGED <<otherThanLoad, loadVariant, fetched, loadPc, installed, loading, loadError>>

\* App.jsx: Promise.all of the fetchJson promises, the optional two with a
\* catch that supplies the default, settles and loadAll() runs on to its end.
ResumeA ==
    /\ loadVariant = "A"
    /\ loadPc = "await"
    /\ (\E d \in Datasets : IsRequired(d) /\ Failed(d)) \/ AllSettled
    /\ loadPc' = "done"
    /\ IF unmounted
       THEN UNCHANGED <<installed, loading, loadError>>
       ELSE IF \E d \in Datasets : IsRequired(d) /\ Failed(d)
       THEN /\ loadError' = "failed"
            /\ loading' = FALSE
            /\ UNCHANGED installed
       ELSE /\ installed' = {d \in Datasets : fetched[d] = "ok"}
            /\ loading' = FALSE
            /\ loadError' = ""
    /\ UNCHANGED <<otherThanLoad, loadVariant, fetched, unmounted>>

\* part_001: Promise.allSettled settles and one setState(next) follows.
ResumeB ==
    /\ loadVariant = "B"
    /\ loadPc = "await"
    /\ AllSettled
    /\ loadPc' = "done"
    /\ IF unmounted
       THEN UNCHANGED <<installed, loading, loadError>>
       ELSE /\ installed' = {d \in Datasets : fetched[d] = "ok"}
            /\ loading' = FALSE
            /\ loadError' = IF \E d \in Datasets : Failed(d) THEN "failed" ELSE ""
    /\ UNCHANGED <<otherThanLoad, loadVariant, fetched, unmounted>>

\* part_002: the dataset whose body is parsed after d, in the order of the
\* statements; an optional dataset is parsed only if (res && res.ok).
ParsedAfter(d) ==
    LET order == RequiredDatasets \o OptionalDatasets
        at    == CHOOSE i \in DOMAIN order : order[i] = d
        later == {j \in DOMAIN order :
                     /\ j > at
                     /\ IsRequired(order[j]) \/ fetched[order[j]] \in {"ok", "badjson"}}
    IN  IF later = {} THEN "done"
        ELSE order[CHOOSE j \in later : \A k \in later : j <= k]

\* part_002: Promise.all of the fetch() promises settles (a rejected optional
\* fetch counts as null); a rejected or not-ok core response goes to the
\* catch block, otherwise the first body is awaited.
ResumeC ==
    /\ loadVariant = "C"
    /\ loadPc = "await"
    /\ (\E d \in Datasets : IsRequired(d) /\ fetched[d] = "rejected") \/ AllSettled
    /\ IF \E d \in Datasets : IsRequired(d) /\ fetched[d] \in {"rejected", "notok"}
       THEN /\ loadError' = "failed"
            /\ loading' = FALSE
            /\ loadPc' = "done"
       ELSE /\ loadPc' = RequiredDatasets[1]
            /\ UNCHANGED <<loading, loadError>>
    /\ UNCHANGED <<otherThanLoad, loadVariant, fetched, installed, unmounted>>

\* part_002: setX(await res.json()) for the dataset at hand; a body that does
\* not parse goes to the catch block; after the last one setLoading(false).
InstallC ==
    /\ loadVariant = "C"
    /\ loadPc \in Datasets
    /\ fetched[loadPc] # "pending"
    /\ IF fetched[loadPc] = "badjson"
       THEN /\ loadError' = "failed"
            /\ loading' = FALSE
            /\ loadPc' = "done"
            /\ UNCHANGED installed
       ELSE /\ installed' = installed \cup {loadPc}
            /\ loadPc' = ParsedAfter(loadPc)
            /\ loading' = IF ParsedAfter(loadPc) = "done" THEN FALSE ELSE loading
            /\ UNCHANGED loadError
    /\ UNCHANGED <<otherThanLoad, loadVariant, fetched, unmounted>>

NextLoad == FetchSettles \/ Unmount \/ ResumeA \/ ResumeB \/ ResumeC \/ InstallC

SpecLoad == InitLoad /\ [][NextLoad]_vars

\* C29: once the component is unmounted, no step writes a reference table,
\* the loading flag or the load error, however the fetches settle.
C29_NoWriteAfterUnmount ==
    [][unmounted =>
           /\ installed' = installed
           /\ loading' = loading
           /\ loadError' = loadError]_vars


OptionalFailedAlone ==
    /\ \A d \in Datasets : IsRequired(d) => fetched[d] = "ok"
    /\ \E d \in Datasets : ~IsRequired(d) /\ Failed(d)

\* C30: in App.jsx and part_002, a load that has run to its end on a mounted
\* component has loading = false; when the load error is set no dataset is
\* installed; and when only optional datasets failed the load error is not
\* set and the failed datasets are not installed.
C30_AllOrNothing ==
    (loadVariant \in {"A", "C"} /\ loadPc = "done" /\ ~unmounted) =>
        /\ loading = FALSE
        /\ loadError # "" => installed = {}
        /\ OptionalFailedAlone =>
               /\ loadError = ""
               /\ \A d \in Datasets : Failed(d) => d \notin installed

=============================================================================
